---- MODULE Spec2Model ----
(***************************************************************************)
(* StyleMap: the registration ledger of src/src/styling.ts (lines 1-188,   *)
(* the HMR-aware revision) and the class-list resolution built on it.      *)
(*                                                                         *)
(* Objects handed to the library (style payloads, keyframe sets) live in   *)
(* a small heap; the symbol-keyed StyleRendered property and the own       *)
(* toString property that the library attaches to them are heap fields.    *)
(* Callers pass a new object literal on every call, as in the readme and   *)
(* the tests: the n-th style() call passes style object n.                 *)
(* Generated names are real strings, built as the code builds them.        *)
(***************************************************************************)
EXTENDS Integers, Sequences, FiniteSets, TLC

\* ---- bounds of the model ------------------------------------------------
\* registration calls (style, animation, variable) in one behaviour
MaxRegistrations == 3
\* style handles issued in the class-list runs (SpecClasses), variables
\* registered in the runs of the variable handles (SpecVariables)
MaxHandles == 2
\* entries of a StyleCollection array
MaxItems == 2
\* objects that variable() and or() create in one behaviour
MaxHandleObjects == 4

\* ---- inputs -------------------------------------------------------------
\* the call sites of style() and animation(): the base name passed and the
\* module that calls; the same base name is used in two modules
Sites == {<<"a", "m1">>, <<"a", "m2">>}
\* the call sites of variable(): the name passed ("" when omitted) and the module
VariableSites == {<<"a", "m1">>, <<"", "m1">>}
Properties == {"width"}
StyleObjs == {<<"s", i>> : i \in 1..MaxRegistrations}
KeyframeObjs == {<<"k", i>> : i \in 1..MaxRegistrations}
Objs == StyleObjs \cup KeyframeObjs

\* JS undefined / a present value, for optional fields
Undefined == <<>>
Some(v) == <<v>>

VARIABLES
    registeredFontFaces,
    registeredRules,
    registeredStyles,
    registeredKeyframes,
    registeredVariables,
    stylesheetRequired,
    hmrEnabled,
    updateTimeout,
    stylesheet,
    StyleRendered,
    toString,
    nStyleObjs,
    nKeyframeObjs,
    nVariables,
    ret,
    flushed,
    phase,
    firstRun,
    secondRun,
    contents,
    handles,
    innerHTML,
    emitted,
    input,
    output

ledger == <<registeredFontFaces, registeredRules, registeredStyles,
            registeredKeyframes, registeredVariables>>
heap == <<StyleRendered, toString>>
alloc == <<nStyleObjs, nKeyframeObjs, nVariables>>
history == <<phase, firstRun, secondRun>>
vars == <<registeredFontFaces, registeredRules, registeredStyles,
          registeredKeyframes, registeredVariables, stylesheetRequired,
          hmrEnabled, updateTimeout, stylesheet, StyleRendered, toString,
          nStyleObjs, nKeyframeObjs, nVariables, ret, flushed, phase,
          firstRun, secondRun, contents, handles, innerHTML, emitted, input,
          output>>
\* what the compiler and the variable handles work on
aside == <<contents, handles, input, output>>

\* ---- StyleCollection ----------------------------------------------------
\* undefined, false, a style handle, or an array of StyleCollections
NoObj == <<"s", 0>>
UndefinedC == [kind |-> "undefined", obj |-> NoObj, items |-> <<>>]
FalseC == [kind |-> "false", obj |-> NoObj, items |-> <<>>]
Handle(o) == [kind |-> "handle", obj |-> o, items |-> <<>>]
Arr(items) == [kind |-> "array", obj |-> NoObj, items |-> items]

\* ---- the outcome of the last call ---------------------------------------
Call(op, name, callerModule, threw, value, registered) ==
    [op |-> op, name |-> name, module |-> callerModule, threw |-> threw,
     value |-> value, registered |-> registered, arg |-> UndefinedC]

RegisteredTwiceMessage(suffixedName) ==
    "'" \o suffixedName \o "' style registered more than once between stylesheet updates. Style names must be unique within a module when HMR support is enabled."

NotRenderedMessage(name) ==
    "'" \o name \o "' style is being used, but hasn't been added to the stylesheet."

\* ---- identifyRegistration ----------------------------------------------
\* Array.prototype.findIndex, 0-based, -1 when nothing matches
findIndex(registrations, id) ==
    LET hits == {i \in 1..Len(registrations) : registrations[i].id = Some(id)}
    IN  IF hits = {} THEN -1
        ELSE (CHOOSE i \in hits : \A j \in hits : i <= j) - 1

\* variant: outside HMR mode the last slot is taken again (length - 1)
identifyRegistration_lastSlot(registrations, name, callerModule) ==
    IF ~hmrEnabled
    THEN [id |-> Undefined,
          index |-> IF Len(registrations) > 0 THEN Len(registrations) - 1 ELSE 0]
    ELSE LET id == name \o ":" \o callerModule
             existingRegistrationIndex == findIndex(registrations, id)
         IN  [id |-> Some(id),
              index |-> IF existingRegistrationIndex >= 0
                        THEN existingRegistrationIndex
                        ELSE Len(registrations)]

identifyRegistration(registrations, name, callerModule) ==
    IF ~hmrEnabled
    THEN [id |-> Undefined, index |-> Len(registrations)]
    ELSE LET id == name \o ":" \o callerModule
             existingRegistrationIndex == findIndex(registrations, id)
         IN  [id |-> Some(id),
              index |-> IF existingRegistrationIndex >= 0
                        THEN existingRegistrationIndex
                        ELSE Len(registrations)]

\* registry[index] = record, for index <= registry.length
SetAt(registry, index, record) ==
    IF index = Len(registry)
    THEN Append(registry, record)
    ELSE [registry EXCEPT ![index + 1] = record]

\* ---- autoUpdateStylesheet ------------------------------------------------
\* updateTimeout counts the timers that are set and have not fired: the
\* variable of the code holds the id of the last one set.
\* variant: the timer is set without clearing the previous one
autoUpdateStylesheet_noClear ==
    IF hmrEnabled /\ stylesheet THEN updateTimeout + 1 ELSE updateTimeout

\* clearTimeout(updateTimeout) takes the pending timer away,
\* setTimeout(updateStylesheet) sets one
autoUpdateStylesheet ==
    IF hmrEnabled /\ stylesheet
    THEN (IF updateTimeout > 0 THEN updateTimeout - 1 ELSE 0) + 1
    ELSE updateTimeout

\* ---- register -----------------------------------------------------------
\* The outcome of register(registry, name, styling, _) as a value: whether
\* it threw, the suffixed name, the registry and the StyleRendered fields
\* afterwards.

\* variant: the suffix is the registry's length, as before HMR support
register_lengthSuffix(registry, name, styling, callerModule) ==
    LET ident == identifyRegistration(registry, name, callerModule)
        index == ident.index
        suffixedName == name \o "-" \o ToString(Len(registry))
    IN  IF index < Len(registry) /\ StyleRendered[registry[index + 1].payload] = "false"
        THEN [threw |-> TRUE, name |-> suffixedName, registry |-> registry,
              rendered |-> StyleRendered]
        ELSE [threw |-> FALSE, name |-> suffixedName,
              registry |-> SetAt(registry, index,
                                 [name |-> suffixedName, payload |-> styling, id |-> ident.id]),
              rendered |-> [StyleRendered EXCEPT ![styling] = "false"]]

\* variant: a payload counts as rendered from its registration on
register_rendersAtOnce(registry, name, styling, callerModule) ==
    LET ident == identifyRegistration(registry, name, callerModule)
        index == ident.index
        suffixedName == name \o "-" \o ToString(index)
    IN  IF index < Len(registry) /\ StyleRendered[registry[index + 1].payload] = "false"
        THEN [threw |-> TRUE, name |-> suffixedName, registry |-> registry,
              rendered |-> StyleRendered]
        ELSE [threw |-> FALSE, name |-> suffixedName,
              registry |-> SetAt(registry, index,
                                 [name |-> suffixedName, payload |-> styling, id |-> ident.id]),
              rendered |-> [StyleRendered EXCEPT ![styling] = "true"]]

\* variant: no check of the slot, the second registration overwrites
register_overwrites(registry, name, styling, callerModule) ==
    LET ident == identifyRegistration(registry, name, callerModule)
        index == ident.index
        suffixedName == name \o "-" \o ToString(index)
    IN  [threw |-> FALSE, name |-> suffixedName,
         registry |-> SetAt(registry, index,
                            [name |-> suffixedName, payload |-> styling, id |-> ident.id]),
         rendered |-> [StyleRendered EXCEPT ![styling] = "false"]]

register(registry, name, styling, callerModule) ==
    LET ident == identifyRegistration(registry, name, callerModule)
        index == ident.index
        suffixedName == name \o "-" \o ToString(index)
    IN  IF index < Len(registry) /\ StyleRendered[registry[index + 1].payload] = "false"
        THEN [threw |-> TRUE, name |-> suffixedName, registry |-> registry,
              rendered |-> StyleRendered]
        ELSE [threw |-> FALSE, name |-> suffixedName,
              registry |-> SetAt(registry, index,
                                 [name |-> suffixedName, payload |-> styling, id |-> ident.id]),
              rendered |-> [StyleRendered EXCEPT ![styling] = "false"]]

\* ---- withToString ------------------------------------------------------
\* Object.defineProperty(obj, 'toString', { value, enumerable: false }) on an
\* object that has no own toString yet
withToString(table, obj, str) == [table EXCEPT ![obj] = Some(str)]

\* obj.toString() of a style payload
ToStr(obj) == IF toString[obj] = Undefined THEN "[object Object]" ELSE toString[obj][1]

\* ---- bookkeeping of the model -------------------------------------------
\* the object literal the next style() / animation() call passes
NextStyleObj == <<"s", nStyleObjs + 1>>
NextKeyframeObj == <<"k", nKeyframeObjs + 1>>
\* the registration calls made so far
Registrations == nStyleObjs + nKeyframeObjs + nVariables
\* the payloads held by a registry
Payloads(registry) == {registry[i].payload : i \in 1..Len(registry)}

\* ======================= the compiler ====================================
\* Text is built as the code builds it: generated strings are TLA+ strings.
\* A string that the code inspects character by character (a selector, a
\* key of a style node, a function name) is a sequence of tokens: a maximal
\* run of word characters ([A-Za-z0-9_-]; in a property or function name a
\* hump of the camel case), or one other character.  No token of the inputs
\* is a proper prefix of another one.

\* the characters outside [\w\d-_] that the inputs use
NonWord == {".", ":", " ", "@", "&", "(", ")", ",", "%"}

RECURSIVE Concat(_)
\* the string a sequence of tokens spells
Concat(tokens) ==
    IF tokens = <<>> THEN "" ELSE Head(tokens) \o Concat(Tail(tokens))

RECURSIVE Join(_, _)
\* Array.prototype.join over strings
Join(strs, sep) ==
    IF strs = <<>> THEN ""
    ELSE IF Len(strs) = 1 THEN strs[1]
    ELSE strs[1] \o sep \o Join(Tail(strs), sep)

RECURSIVE Flatten(_)
\* Array.prototype.flatMap / reduce(concat) over a sequence of sequences
Flatten(seqs) ==
    IF seqs = <<>> THEN <<>> ELSE Head(seqs) \o Flatten(Tail(seqs))

\* `${x}` of a string or undefined, and the entry that join makes of it
Template(r) == IF r = Undefined THEN "undefined" ELSE r[1]
Joined(r) == IF r = Undefined THEN "" ELSE r[1]

\* ---- property values ----------------------------------------------------
Undef == [t |-> "undef"]
Num(n) == [t |-> "num", n |-> n]
\* a string; numeric: Number(s) is a number (the string is written from n)
Str(s) == [t |-> "str", s |-> s, numeric |-> FALSE]
NumStr(n) == [t |-> "str", s |-> ToString(n), numeric |-> TRUE]
ArrV(items) == [t |-> "arr", items |-> items]
\* a function map: the own enumerable entries <<function name, argument>>
Obj(entries) == [t |-> "obj", entries |-> entries]

\* String(value) of a number or a string
Show(value) == IF value.t = "num" THEN ToString(value.n) ELSE value.s

\* ---- utils: defaultUnit, defaultValue, defaultUnitAndValue ---------------
defaultUnit(unit, coerceToNumber, value) ==
    IF value.t = "undef" THEN Undefined
    ELSE IF value.t = "num" \/ (coerceToNumber /\ value.t = "str" /\ value.numeric)
    THEN Some(Show(value) \o unit)
    ELSE Some(Show(value))

defaultValue(default, value) ==
    IF value.t = "undef" THEN Some(default) ELSE Some(Show(value))

\* defaultUnit(unit)(v) || defaultValue(value)(v)
defaultUnitAndValue(unit, default, value) ==
    LET u == defaultUnit(unit, FALSE, value)
    IN  IF u # Undefined /\ u[1] # "" THEN u ELSE defaultValue(default, value)

\* variant: a property without an entry gets no unit
propertyDefaults_noFallbackUnit(property, value) ==
    CASE property \in {"animationDuration", "animationDelay"} ->
            defaultUnitAndValue("ms", "0ms", value)
      [] property = "animationTimingFunction" -> defaultValue("ease", value)
      [] property = "animationIterationCount" -> defaultUnitAndValue("", "1", value)
      [] property = "animationDirection" -> defaultValue("normal", value)
      [] property = "animationFillMode" -> defaultValue("none", value)
      [] property = "animationPlayState" -> defaultValue("running", value)
      [] property \in {"transitionDuration", "transitionDelay"} ->
            defaultUnit("ms", FALSE, value)
      [] OTHER -> defaultUnit("", FALSE, value)

\* (propertyDefaults[property] || defaultUnit('px'))(value)
propertyDefaults(property, value) ==
    CASE property \in {"animationDuration", "animationDelay"} ->
            defaultUnitAndValue("ms", "0ms", value)
      [] property = "animationTimingFunction" -> defaultValue("ease", value)
      [] property = "animationIterationCount" -> defaultUnitAndValue("", "1", value)
      [] property = "animationDirection" -> defaultValue("normal", value)
      [] property = "animationFillMode" -> defaultValue("none", value)
      [] property = "animationPlayState" -> defaultValue("running", value)
      [] property \in {"columnCount", "flex", "flexGrow", "flexShrink", "fontWeight",
                       "gridArea", "gridColumn", "gridRow", "lineHeight", "opacity",
                       "zIndex"} ->
            defaultUnit("", FALSE, value)
      [] property \in {"transitionDuration", "transitionDelay"} ->
            defaultUnit("ms", FALSE, value)
      [] OTHER -> defaultUnit("px", FALSE, value)

\* functionDefaults[fn], as <<unit of parameter 0, unit of parameter 1, ...>>
functionDefaults(fn) ==
    CASE fn \in {"matrix", "matrix3d", "scale", "scaleX", "scaleY", "scaleZ", "scale3d"} -> <<"">>
      [] fn = "repeat" -> <<"", "px">>
      [] fn \in {"rotate", "rotateX", "rotateY", "rotateZ", "skew", "skewX", "skewY"} -> <<"deg">>
      [] fn = "rotate3d" -> <<"", "", "", "deg">>
      [] OTHER -> <<>>

\* propertySeparators[property] || [', ']
propertySeparators(property) ==
    CASE property \in {"aspectRatio", "animationRange", "animationRangeEnd",
                       "animationRangeStart", "borderColor", "borderRadius",
                       "borderStyle", "borderWidth", "gridTemplateAreas",
                       "gridTemplateColumns", "gridTemplateRows", "margin",
                       "padding", "scale", "translate", "transform"} -> <<" ">>
      [] property \in {"gridColumn", "gridRow"} -> <<" / ">>
      [] property = "gridTemplate" -> <<" ", " / ">>
      [] OTHER -> <<", ">>

\* cssFunctionParameterSeparators[fn] ?? ', '
cssFunctionParameterSeparators(fn) ==
    IF fn \in {"inset", "circle", "ellipse"} THEN " " ELSE ", "

\* ---- kebabCase, functionKebabCase ----------------------------------------
\* the humps of the inputs that start with a capital, and their lower case
Lower(hump) ==
    CASE hump = "Left" -> "left"
      [] hump = "Delay" -> "delay"
      [] hump = "Gradient" -> "gradient"
      [] hump = "Webkit" -> "webkit"
      [] hump = "Align" -> "align"
      [] hump = "Self" -> "self"
      [] hump = "Content" -> "content"
      [] hump = "Zooming" -> "zooming"
      [] hump = "Family" -> "family"
      [] hump = "X" -> "x"
      [] hump = "Template" -> "template"
      [] hump = "Rows" -> "rows"
      [] hump = "Property" -> "property"
      [] hump = "Height" -> "height"
      [] hump = "Name" -> "name"
      [] hump = "Duration" -> "duration"
      [] OTHER -> hump

Capital(hump) == Lower(hump) # hump

RECURSIVE kebabHumps(_)
\* .replace(/[A-Z]/g, capital => `-${capital.toLowerCase()}`)
kebabHumps(humps) ==
    IF humps = <<>> THEN ""
    ELSE (IF Capital(Head(humps)) THEN "-" \o Lower(Head(humps)) ELSE Head(humps))
            \o kebabHumps(Tail(humps))

\* a custom property name starts with the token "--"
kebabCase(name) ==
    IF name # <<>> /\ name[1] = "--" THEN Concat(name)
    ELSE IF Len(name) >= 2 /\ name[1] = "ms" /\ Capital(name[2])
    THEN "-ms" \o kebabHumps(Tail(name))
    ELSE kebabHumps(name)

\* /[A-Z](?!$)/g: a capital that ends the name stays
functionKebabCase(name) ==
    IF Len(name) >= 2 /\ name[Len(name)] \in {"X", "Y", "Z"}
    THEN kebabHumps(SubSeq(name, 1, Len(name) - 1)) \o name[Len(name)]
    ELSE kebabHumps(name)

\* ---- objects as values ---------------------------------------------------
\* typeof value == 'object' for a value that is not an array: a function
\* map, but also a style node, a rule set in the object form or an animation
\* definition that stands where a value is expected
isObject(value) == value.t \in {"obj", "node", "rules", "anim"}

\* Object.entries(value) of such an object, the keys as tokens; a rule set
\* has its selectors as keys, an animation definition the sub-properties
\* that are set and `keyframes`, a keyframe object its offsets
entriesOf(value) ==
    CASE value.t \in {"obj", "node"} -> value.entries
      [] value.t = "rules" ->
            [i \in 1..Len(value.entries) |->
                <<value.entries[i][1].sels[1], value.entries[i][2]>>]
      [] value.t = "anim" ->
            (IF value.props["animationName"].t = "undef" THEN <<>>
             ELSE << <<(<<"animation", "Name">>), value.props["animationName"]>> >>)
            \o (IF value.keyframes = Undefined THEN <<>>
                ELSE << <<(<<"keyframes">>),
                          [t |-> "obj",
                           entries |-> [i \in 1..Len(contents[value.keyframes[1]]) |->
                                <<(<<contents[value.keyframes[1]][i][1].s>>),
                                  [t |-> "node", entries |-> contents[value.keyframes[1]][i][2]]>>]]>> >>)
            \o (IF value.props["animationDuration"].t = "undef" THEN <<>>
                ELSE << <<(<<"animation", "Duration">>), value.props["animationDuration"]>> >>)

\* ---- cssPropertyValue ----------------------------------------------------
\* The formatters return Some(string) or Undefined; property is the
\* property's name as a string, fn a function name as tokens.
RECURSIVE cssPropertyValue(_, _)
RECURSIVE arrayValues(_, _)
RECURSIVE cssFunctions(_, _)
RECURSIVE cssFunctionValue(_, _, _)
RECURSIVE cssFunctionParameterValue(_, _, _, _)

cssPropertyValue(property, value) ==
    IF value.t = "arr" THEN Some(arrayValues(property, value.items))
    ELSE IF isObject(value) THEN Some(cssFunctions(property, entriesOf(value)))
    ELSE propertyDefaults(property, value)

\* variant: the outer join takes the first separator, nested array or not
arrayValues_outerAlwaysFirst(property, values) ==
    LET separators == propertySeparators(property)
        part(v) ==
            IF v.t = "arr"
            THEN Join([j \in 1..Len(v.items) |-> Joined(cssPropertyValue(property, v.items[j]))],
                      separators[1])
            ELSE Joined(cssPropertyValue(property, v))
    IN  Join([i \in 1..Len(values) |-> part(values[i])], separators[1])

\* an inner array is joined with the first separator and switches the outer
\* join to the second one
arrayValues(property, values) ==
    LET separators == propertySeparators(property)
        nested == \E i \in 1..Len(values) : values[i].t = "arr"
        part(v) ==
            IF v.t = "arr"
            THEN Join([j \in 1..Len(v.items) |-> Joined(cssPropertyValue(property, v.items[j]))],
                      separators[1])
            ELSE Joined(cssPropertyValue(property, v))
        outer == IF nested /\ Len(separators) > 1 THEN separators[2] ELSE separators[1]
    IN  Join([i \in 1..Len(values) |-> part(values[i])], outer)

\* functionMap: the entries <<function name, argument>> of the object
cssFunctions(property, functionMap) ==
    Join([i \in 1..Len(functionMap) |->
            functionKebabCase(functionMap[i][1]) \o "("
                \o cssFunctionValue(property, functionMap[i][1], functionMap[i][2])
                \o ")"],
         " ")

cssFunctionValue(property, fn, value) ==
    IF value.t = "arr"
    THEN Join([i \in 1..Len(value.items) |->
                    Joined(cssFunctionParameterValue(property, fn, value.items[i], i - 1))],
              cssFunctionParameterSeparators(Concat(fn)))
    ELSE Template(cssFunctionParameterValue(property, fn, value, 0))

\* parameterDefault ?? cssPropertyValue(property, value)
cssFunctionParameterValue(property, fn, value, parameterIndex) ==
    IF value.t = "arr"
    THEN Some(Join([i \in 1..Len(value.items) |->
                        Joined(cssFunctionParameterValue(property, fn, value.items[i], parameterIndex))],
                   " "))
    ELSE IF isObject(value) THEN Some(cssFunctions(property, entriesOf(value)))
    ELSE LET defaults == functionDefaults(Concat(fn))
             parameterDefault ==
                IF defaults # <<>>
                THEN defaultUnit(defaults[IF parameterIndex < Len(defaults) - 1
                                          THEN parameterIndex + 1 ELSE Len(defaults)],
                                 FALSE, value)
                ELSE Undefined
         IN  IF parameterDefault # Undefined THEN parameterDefault
             ELSE cssPropertyValue(property, value)

\* ---- cssProperties, baseRule ---------------------------------------------
\* styles: a sequence of <<property name (tokens), value>>
cssProperties(styles) ==
    Join([i \in 1..Len(styles) |->
            kebabCase(styles[i][1]) \o ": "
                \o Template(cssPropertyValue(Concat(styles[i][1]), styles[i][2])) \o ";"],
         " ")

baseRule(selector, styles) ==
    IF Len(styles) > 0
    THEN <<selector \o " { " \o cssProperties(styles) \o " }">>
    ELSE <<>>

\* ---- fontFaceCss, keyframesCss -------------------------------------------
\* a FontFaceDefinition: its Object.entries and its own toString, if any
FontFace(entries) == [t |-> "fontFace", entries |-> entries, toString |-> Undefined]

fontFaceCss(fontFace) == "@font-face { " \o cssProperties(fontFace.entries) \o " }"

\* `  ${baseRule(...)}`: the array of zero or one rule, as a string
keyframesCss(name, keyframes) ==
    "@keyframes " \o name \o " {\n"
        \o Join([i \in 1..Len(keyframes) |->
                    "  " \o Join(baseRule(Template(defaultUnit("%", TRUE, keyframes[i][1])),
                                          keyframes[i][2]),
                                 ",")],
                "\n")
        \o "\n}"

\* ---- style nodes, rule sets, animation definitions -----------------------
\* A style node (Styles) is its Object.entries: a sequence of <<key, value>>,
\* the key as tokens.  Under "$" the value is a rule set, under a key that
\* starts with ":" a style node, under "animation" a string, an animation
\* definition or an array of them.
Node(entries) == [t |-> "node", entries |-> entries]
\* Rules: the object form {selector: styles} or the array form
\* [Selector, Styles][]; an entry is <<selector, styles>>, the selector
\* being Sel(tokens) or, in the array form, also SelList(<<tokens, ...>>)
Sel(selector) == [list |-> FALSE, sels |-> <<selector>>]
SelList(selectors) == [list |-> TRUE, sels |-> selectors]
RulesObj(entries) == [t |-> "rules", array |-> FALSE, entries |-> entries]
RulesArr(entries) == [t |-> "rules", array |-> TRUE, entries |-> entries]
\* a string whose characters the code inspects (an animation name)
Tok(tokens) == [t |-> "str", s |-> Concat(tokens), numeric |-> FALSE, tokens |-> tokens]
TokensOf(value) == IF "tokens" \in DOMAIN value THEN value.tokens ELSE <<Show(value)>>

AnimationProps ==
    <<"animationName", "animationDuration", "animationTimingFunction",
      "animationDelay", "animationIterationCount", "animationDirection",
      "animationFillMode", "animationPlayState">>
\* an AnimationDefinition: keyframes is Undefined or Some(keyframe object)
AnimationDefinition(animationName, keyframes, animationDuration) ==
    [t |-> "anim", keyframes |-> keyframes,
     props |-> [p \in {AnimationProps[i] : i \in 1..8} |->
                    IF p = "animationName" THEN animationName
                    ELSE IF p = "animationDuration" THEN animationDuration
                    ELSE Undef]]

\* ---- ruleEntries ----------------------------------------------------------
ruleEntries(rules) ==
    IF rules.array
    THEN Flatten([i \in 1..Len(rules.entries) |->
            IF rules.entries[i][1].list
            THEN [j \in 1..Len(rules.entries[i][1].sels) |->
                        <<rules.entries[i][1].sels[j], rules.entries[i][2]>>]
            ELSE << <<rules.entries[i][1].sels[1], rules.entries[i][2]>> >>])
    ELSE [i \in 1..Len(rules.entries) |->
            <<rules.entries[i][1].sels[1], rules.entries[i][2]>>]

\* ---- inlineAnimationName --------------------------------------------------
RECURSIVE replaceNonWord(_)
\* .replace(/[^\w\d-_]+/g, '_') on tokens
replaceNonWord(tokens) ==
    IF tokens = <<>> THEN <<>>
    ELSE IF Head(tokens) \in NonWord
    THEN IF Len(tokens) > 1 /\ tokens[2] \in NonWord
         THEN replaceNonWord(Tail(tokens))
         ELSE <<"_">> \o replaceNonWord(Tail(tokens))
    ELSE <<Head(tokens)>> \o replaceNonWord(Tail(tokens))

\* String(name || (selector + '-animation')).replace(...).replace(/^_/, '') + `-${index}`
inlineAnimationName(name, selector, index) ==
    LET source == IF name.t = "undef" \/ (name.t = "str" /\ name.s = "")
                  THEN selector \o <<"-animation">>
                  ELSE TokensOf(name)
        replaced == replaceNonWord(source)
        stripped == IF replaced # <<>> /\ replaced[1] = "_" THEN Tail(replaced) ELSE replaced
    IN  Concat(stripped) \o "-" \o ToString(index)

\* ---- singleAnimation, animationValues -------------------------------------
\* variant: the marker is not looked at, every embedded set counts as inline
treatedAsRegistered_never(keyframes) == FALSE

\* StyleRendered in animation.keyframes: the set is taken as registered and
\* no @keyframes block is hoisted for it
treatedAsRegistered(keyframes) == StyleRendered[keyframes] # "absent"

\* def[prop] of an object used as an animation definition
AnimationProp(def, prop) == IF def.t = "anim" THEN def.props[prop] ELSE Undef

animationFromDefinition(def) ==
    Join([i \in 1..8 |-> Joined(cssPropertyValue(AnimationProps[i],
                                                 AnimationProp(def, AnimationProps[i])))],
         " ")

\* variant: the hoisted block is named by the selector alone, whatever name
\* the declaration carries
singleAnimation_blockNamedBySelector(animation, selector, index) ==
    IF animation.t \in {"anim", "obj"}
    THEN IF animation.t = "obj" \/ animation.keyframes = Undefined
            \/ treatedAsRegistered(animation.keyframes[1])
         THEN [value |-> animationFromDefinition(animation), keyframes |-> <<>>]
         ELSE LET animationName ==
                    inlineAnimationName(AnimationProp(animation, "animationName"), selector, index)
              IN  [value |-> animationFromDefinition(
                                [animation EXCEPT !.props["animationName"] = Str(animationName)]),
                   keyframes |-> << <<inlineAnimationName(Undef, selector, index),
                                      animation.keyframes[1]>> >>]
    ELSE [value |-> Show(animation), keyframes |-> <<>>]

\* returns the declaration's value and the <<name, keyframe object>> to hoist
singleAnimation(animation, selector, index) ==
    IF animation.t \in {"anim", "obj"}
    THEN IF animation.t = "obj" \/ animation.keyframes = Undefined
            \/ treatedAsRegistered(animation.keyframes[1])
         THEN [value |-> animationFromDefinition(animation), keyframes |-> <<>>]
         ELSE LET animationName ==
                    inlineAnimationName(AnimationProp(animation, "animationName"), selector, index)
              IN  [value |-> animationFromDefinition(
                                [animation EXCEPT !.props["animationName"] = Str(animationName)]),
                   keyframes |-> << <<animationName, animation.keyframes[1]>> >>]
    ELSE [value |-> Show(animation), keyframes |-> <<>>]

\* an array is resolved element by element, the array index as index, and
\* reduced (the inputs hold no empty array); a single value has index 0
animationValues(value, selector) ==
    IF value.t = "arr"
    THEN LET each == [i \in 1..Len(value.items) |->
                        singleAnimation(value.items[i], selector, i - 1)]
         IN  [value |-> Join([i \in 1..Len(each) |-> each[i].value], ", "),
              keyframes |-> Flatten([i \in 1..Len(each) |-> each[i].keyframes])]
    ELSE singleAnimation(value, selector, 0)

\* ---- splitProperties ------------------------------------------------------
\* selector: the context selector as tokens
splitProperties(styles, selector) ==
    LET entries == SelectSeq(styles.entries, LAMBDA e : e[2].t # "undef")
        isNested(key) == key = <<"$">> \/ key[1] = ":"
        isAnimation(key) == key = <<"animation">>
        resolved(e) == animationValues(e[2], selector)
    IN  [properties |->
            [i \in 1..Len(SelectSeq(entries, LAMBDA e : ~isNested(e[1]))) |->
                LET e == SelectSeq(entries, LAMBDA x : ~isNested(x[1]))[i]
                IN  IF isAnimation(e[1]) THEN <<e[1], Str(resolved(e).value)>> ELSE e],
         nested |->
            Flatten([i \in 1..Len(entries) |->
                IF entries[i][1] = <<"$">> THEN ruleEntries(entries[i][2])
                ELSE IF entries[i][1][1] = ":"
                THEN << <<(<<"&">> \o entries[i][1]), entries[i][2]>> >>
                ELSE <<>>]),
         keyframes |->
            Flatten([i \in 1..Len(entries) |->
                IF isAnimation(entries[i][1]) THEN resolved(entries[i]).keyframes ELSE <<>>])]

\* ---- ruleSet, styleRules, css ---------------------------------------------
nestedAtRules == {"media", "scope", "starting-style", "supports"}

\* selector[0] == '@' && nestedAtRules.some(r => selector.startsWith(r))
isNestedAtRule(selector) ==
    Len(selector) >= 2 /\ selector[1] = "@" /\ selector[2] \in nestedAtRules

\* selector.replace(/&/g, parentSelector)
replaceAmpersand(selector, parentSelector) ==
    Flatten([i \in 1..Len(selector) |->
                IF selector[i] = "&" THEN parentSelector ELSE <<selector[i]>>])

\* the rule strings of an entry: each wrapped in the at-rule, or as they are
wrapEach(wraps, selector, body) ==
    IF wraps THEN [j \in 1..Len(body) |-> Concat(selector) \o " { " \o body[j] \o " }"]
    ELSE body

RECURSIVE ruleSet(_, _)
RECURSIVE styleRules(_, _)

\* variant: the body of a nested at-rule is wrapped as one block
ruleSet_wrapsWholeBody(parentSelector, rules) ==
    Flatten([i \in 1..Len(rules) |->
        LET selector == rules[i][1]
            styles == rules[i][2]
        IN  IF parentSelector # <<>> /\ isNestedAtRule(selector)
            THEN LET body == styleRules(parentSelector, styles)
                 IN  IF body = <<>> THEN <<>>
                     ELSE <<Concat(selector) \o " { " \o Join(body, " ") \o " }">>
            ELSE IF \E j \in 1..Len(selector) : selector[j] = "&"
            THEN styleRules(replaceAmpersand(selector, parentSelector), styles)
            ELSE IF parentSelector # <<>>
            THEN styleRules(parentSelector \o <<" ">> \o selector, styles)
            ELSE styleRules(selector, styles)])

\* variant: a child with '&' is appended to the parent like any other child
ruleSet_ampersandAsDescendant(parentSelector, rules) ==
    Flatten([i \in 1..Len(rules) |->
        LET selector == rules[i][1]
            styles == rules[i][2]
        IN  IF parentSelector # <<>> /\ isNestedAtRule(selector)
            THEN LET body == styleRules(parentSelector, styles)
                 IN  [j \in 1..Len(body) |-> Concat(selector) \o " { " \o body[j] \o " }"]
            ELSE IF parentSelector # <<>>
            THEN styleRules(parentSelector \o <<" ">> \o SelectSeq(selector, LAMBDA t : t # "&"), styles)
            ELSE styleRules(selector, styles)])

\* variant: a child without '&' is joined to the parent by a space, also to
\* the empty parent
ruleSet_spaceAfterEmptyParent(parentSelector, rules) ==
    Flatten([i \in 1..Len(rules) |->
        LET selector == rules[i][1]
            styles == rules[i][2]
        IN  IF parentSelector # <<>> /\ isNestedAtRule(selector)
            THEN LET body == styleRules(parentSelector, styles)
                 IN  [j \in 1..Len(body) |-> Concat(selector) \o " { " \o body[j] \o " }"]
            ELSE IF \E j \in 1..Len(selector) : selector[j] = "&"
            THEN styleRules(replaceAmpersand(selector, parentSelector), styles)
            ELSE styleRules(parentSelector \o <<" ">> \o selector, styles)])

\* rules: the entries <<selector, styles>>; the result is the rule strings.
\* The four branches of the code differ in the selector handed to styleRules
\* (target) and in the wrapping of its result.
ruleSet(parentSelector, rules) ==
    Flatten([i \in 1..Len(rules) |->
        LET selector == rules[i][1]
            styles == rules[i][2]
            wraps == parentSelector # <<>> /\ isNestedAtRule(selector)
            target == IF wraps THEN parentSelector
                      ELSE IF \E j \in 1..Len(selector) : selector[j] = "&"
                      THEN replaceAmpersand(selector, parentSelector)
                      ELSE IF parentSelector # <<>>
                      THEN parentSelector \o <<" ">> \o selector
                      ELSE selector
        IN  wrapEach(wraps, selector, styleRules(target, styles))])

\* variant: a base rule is emitted for every node
styleRules_alwaysBaseRule(selector, styles) ==
    LET split == splitProperties(styles, selector)
    IN  <<Concat(selector) \o " { " \o cssProperties(split.properties) \o " }">>
            \o ruleSet(selector, split.nested)
            \o [i \in 1..Len(split.keyframes) |->
                    keyframesCss(split.keyframes[i][1], contents[split.keyframes[i][2]])]

RECURSIVE rulesOfSplit(_, _)

\* variant: the hoisted blocks come before the nested rules
rulesOfSplit_blocksBeforeNested(selector, split) ==
    baseRule(Concat(selector), split.properties)
        \o [i \in 1..Len(split.keyframes) |->
                keyframesCss(split.keyframes[i][1], contents[split.keyframes[i][2]])]
        \o ruleSet(selector, split.nested)

\* the base rule, the nested rules and the hoisted blocks of the split node
rulesOfSplit(selector, split) ==
    baseRule(Concat(selector), split.properties)
        \o ruleSet(selector, split.nested)
        \o [i \in 1..Len(split.keyframes) |->
                keyframesCss(split.keyframes[i][1], contents[split.keyframes[i][2]])]

styleRules(selector, styles) == rulesOfSplit(selector, splitProperties(styles, selector))

\* the rule strings of css(rules), before the join
cssRuleStrings(rules) == ruleSet(<<>>, ruleEntries(rules))

css(rules) == Join(cssRuleStrings(rules), "\n")

\* ---- variable handles ------------------------------------------------------
\* The objects createVariable returns live in the heap `handles`; a handle
\* is referred to by Ref(position).  A fallback is Undef, a string or number,
\* or a Ref.
Ref(i) == [t |-> "ref", ref |-> i]

\* createVariable(name, property, fallback): the closure's name (as tokens),
\* property and fallback; the own property `var` is [name, fallback]
createVariable(name, property, fallback) ==
    [name |-> name, property |-> property, fallback |-> fallback]

\* isVariable(value): an object with a function `or`
isVariable(value) == value.t = "ref"

RECURSIVE handleValue(_, _)
\* a handle as a property value: its own enumerable entries, var: [name, fallback]
handleValue(objects, i) ==
    Obj(<< <<(<<"var">>),
             ArrV(<<Str(Concat(objects[i].name)),
                    IF isVariable(objects[i].fallback)
                    THEN handleValue(objects, objects[i].fallback.ref)
                    ELSE objects[i].fallback>>)>> >>)

\* a value handed to the library, handles resolved to their objects
valueOf(objects, value) == IF isVariable(value) THEN handleValue(objects, value.ref) ELSE value

\* variable.set(value): { [name]: cssPropertyValue(property, value) }
set(objects, i, value) ==
    LET formatted == cssPropertyValue(objects[i].property, valueOf(objects, value))
    IN  [threw |-> FALSE,
         value |-> Node(<< <<objects[i].name,
                             IF formatted = Undefined THEN Undef ELSE Str(formatted[1])>> >>)]

RECURSIVE or(_, _, _)
\* variable.or(newFallback): the heap with the handles it creates, and the
\* handle it returns
or(objects, i, newFallback) ==
    IF isVariable(objects[i].fallback)
    THEN LET inner == or(objects, objects[i].fallback.ref, newFallback)
         IN  [heap |-> Append(inner.heap,
                              createVariable(objects[i].name, objects[i].property, Ref(inner.ref))),
              ref |-> Len(inner.heap) + 1]
    ELSE [heap |-> Append(objects, createVariable(objects[i].name, objects[i].property, newFallback)),
          ref |-> Len(objects) + 1]

\* variable.toString(): [name, fallback].filter(Boolean).join(', ')
variableToString(objects, i) ==
    LET formatted == cssPropertyValue(objects[i].property, valueOf(objects, objects[i].fallback))
    IN  "var(" \o Concat(objects[i].name)
            \o (IF formatted = Undefined \/ formatted[1] = "" THEN "" ELSE ", " \o formatted[1])
            \o ")"

\* ---- getCss ----------------------------------------------------------------
\* The array that getCss joins: each entry with the registry and the slot
\* (0-based) it is made from.
Emitted(group, slot, text) == [group |-> group, slot |-> slot, text |-> text]

fontFaceEntries ==
    [i \in 1..Len(registeredFontFaces) |->
        Emitted("fontFace", i - 1, fontFaceCss(registeredFontFaces[i]))]
ruleEntriesOfSheet ==
    [i \in 1..Len(registeredRules) |-> Emitted("rules", i - 1, css(registeredRules[i]))]
\* css({ [`.${name}`]: styles })
styleEntries ==
    [i \in 1..Len(registeredStyles) |->
        Emitted("style", i - 1,
                css(RulesObj(<< <<Sel(<<".", registeredStyles[i].name>>),
                                  contents[registeredStyles[i].payload]>> >>)))]
keyframeEntries ==
    [i \in 1..Len(registeredKeyframes) |->
        Emitted("keyframes", i - 1,
                keyframesCss(registeredKeyframes[i].name,
                             contents[registeredKeyframes[i].payload]))]

\* variant: the registered styles come before the raw rules
getCssEntries_stylesFirst ==
    fontFaceEntries \o styleEntries \o ruleEntriesOfSheet \o keyframeEntries

getCssEntries ==
    fontFaceEntries \o ruleEntriesOfSheet \o styleEntries \o keyframeEntries

TextsOf(entries) == [i \in 1..Len(entries) |-> entries[i].text]

getCss == Join(TextsOf(getCssEntries), "\n")

SourceUrl == "\n/*# sourceURL=stylemap.css */"

\* ---- Init ---------------------------------------------------------------
InitLedger ==
    /\ registeredFontFaces = <<>>
    /\ registeredRules = <<>>
    /\ registeredStyles = <<>>
    /\ registeredKeyframes = <<>>
    /\ registeredVariables = <<>>
    /\ stylesheetRequired = TRUE
    /\ hmrEnabled \in BOOLEAN
    /\ updateTimeout = 0
    /\ stylesheet = FALSE
    /\ StyleRendered = [o \in Objs |-> "absent"]
    /\ toString = [o \in StyleObjs |-> Undefined]
    /\ nStyleObjs = 0
    /\ nKeyframeObjs = 0
    /\ nVariables = 0
    /\ ret = Call("init", "", "", FALSE, "", Undefined)
    /\ flushed = {}
    /\ phase = "first"
    /\ firstRun = <<>>
    /\ secondRun = <<>>
    /\ handles = <<>>
    /\ innerHTML = ""
    /\ emitted = <<>>
    /\ output = Undefined

\* no object has contents yet and nothing is handed to the compiler
Init ==
    /\ InitLedger
    /\ contents = [o \in Objs |-> IF o \in StyleObjs THEN Node(<<>>) ELSE <<>>]
    /\ input = RulesObj(<<>>)

\* flushed (history): the payloads of the current records that an
\* updateStylesheet call has seen since they were registered
StillFlushed == flushed' = flushed \cap (Payloads(registeredStyles') \cup Payloads(registeredKeyframes'))

\* ---- style(name, styles) ------------------------------------------------
style(name, styles, callerModule) ==
    LET r == register(registeredStyles, name, styles, callerModule)
    IN  /\ Registrations < MaxRegistrations
        /\ styles = NextStyleObj
        /\ nStyleObjs' = nStyleObjs + 1
        /\ updateTimeout' = autoUpdateStylesheet
        /\ registeredStyles' = r.registry
        /\ StyleRendered' = r.rendered
        /\ toString' = IF r.threw THEN toString ELSE withToString(toString, styles, r.name)
        /\ ret' = IF r.threw
                  THEN Call("style", name, callerModule, TRUE, RegisteredTwiceMessage(r.name), Undefined)
                  ELSE Call("style", name, callerModule, FALSE, r.name, Some(styles))
        /\ UNCHANGED <<registeredFontFaces, registeredRules, registeredKeyframes,
                       registeredVariables, stylesheetRequired, hmrEnabled,
                       stylesheet, nKeyframeObjs, nVariables>>
        /\ StillFlushed

\* ---- animation(name, keyframes, ...) -----------------------------------
\* The named form; the returned definition carries the registered name.
animation(name, keyframes, callerModule) ==
    LET r == register(registeredKeyframes, name, keyframes, callerModule)
    IN  /\ Registrations < MaxRegistrations
        /\ keyframes = NextKeyframeObj
        /\ nKeyframeObjs' = nKeyframeObjs + 1
        /\ updateTimeout' = autoUpdateStylesheet
        /\ registeredKeyframes' = r.registry
        /\ StyleRendered' = r.rendered
        /\ ret' = IF r.threw
                  THEN Call("animation", name, callerModule, TRUE, RegisteredTwiceMessage(r.name), Undefined)
                  ELSE Call("animation", name, callerModule, FALSE, r.name, Some(keyframes))
        /\ UNCHANGED <<registeredFontFaces, registeredRules, registeredStyles,
                       registeredVariables, stylesheetRequired, hmrEnabled,
                       stylesheet, toString, nStyleObjs, nVariables>>
        /\ StillFlushed

\* ---- variable(property, name?) -----------------------------------------
\* name = "" stands for the omitted name (name || property).
variable(property, name, callerModule) ==
    LET namePrefix == IF name = "" THEN property ELSE name
        ident == identifyRegistration(registeredVariables, namePrefix, callerModule)
        tokens == <<"--", namePrefix \o "-" \o ToString(ident.index)>>
        varName == Concat(tokens)
    IN  /\ Registrations < MaxRegistrations
        /\ nVariables' = nVariables + 1
        /\ updateTimeout' = autoUpdateStylesheet
        /\ registeredVariables' = SetAt(registeredVariables, ident.index,
                                        [name |-> varName, tokens |-> tokens,
                                         property |-> property, id |-> ident.id])
        /\ ret' = Call("variable", namePrefix, callerModule, FALSE, varName, Undefined)
        /\ UNCHANGED <<registeredFontFaces, registeredRules, registeredStyles,
                       registeredKeyframes, stylesheetRequired, hmrEnabled,
                       stylesheet, heap, nStyleObjs, nKeyframeObjs, flushed>>

\* ---- updateStylesheet ---------------------------------------------------
\* registeredStyles.forEach(([, s]) => s[StyleRendered] = true)
markRendered(rendered) ==
    [o \in Objs |-> IF o \in Payloads(registeredStyles) THEN "true" ELSE rendered[o]]

\* ensureStylesheet creates the element, the text is written, the styles
\* are marked
updateStylesheetBody ==
    /\ stylesheet' = TRUE
    /\ innerHTML' = getCss \o SourceUrl
    /\ StyleRendered' = markRendered(StyleRendered)
    /\ ret' = Call("updateStylesheet", "", "", FALSE, "", Undefined)
    /\ flushed' = Payloads(registeredStyles) \cup Payloads(registeredKeyframes)
    /\ UNCHANGED <<ledger, stylesheetRequired, hmrEnabled, toString, alloc>>

updateStylesheet ==
    /\ updateStylesheetBody
    /\ UNCHANGED updateTimeout

\* the timer set by autoUpdateStylesheet fires and runs updateStylesheet
updateTimeoutFires ==
    /\ updateTimeout > 0
    /\ updateTimeout' = updateTimeout - 1
    /\ updateStylesheetBody

\* ---- requireStylesheet / enableHmrSupport -------------------------------
requireStylesheet(enable) ==
    /\ stylesheetRequired' = enable
    /\ ret' = Call("requireStylesheet", "", "", FALSE, "", Undefined)
    /\ UNCHANGED <<ledger, hmrEnabled, updateTimeout, stylesheet, heap, alloc, flushed>>

enableHmrSupport(enable) ==
    /\ hmrEnabled' = enable
    /\ ret' = Call("enableHmrSupport", "", "", FALSE, "", Undefined)
    /\ UNCHANGED <<ledger, stylesheetRequired, updateTimeout, stylesheet, heap, alloc, flushed>>

\* ---- resetStyles --------------------------------------------------------
\* registeredStyles.forEach(([, s]) => delete s[StyleRendered])
stripRendered(rendered) ==
    [o \in Objs |-> IF o \in Payloads(registeredStyles) THEN "absent" ELSE rendered[o]]

resetStyles ==
    /\ StyleRendered' = stripRendered(StyleRendered)
    /\ registeredFontFaces' = <<>>
    /\ registeredStyles' = <<>>
    /\ registeredRules' = <<>>
    /\ registeredKeyframes' = <<>>
    /\ ret' = Call("resetStyles", "", "", FALSE, "", Undefined)
    /\ flushed' = {}
    /\ UNCHANGED <<registeredVariables, stylesheetRequired, hmrEnabled,
                   updateTimeout, stylesheet, toString, alloc>>

\* ---- classes(styleCollection) -------------------------------------------
SeqsUpTo(S, n) == UNION {[1..k -> S] : k \in 0..n}
\* the handles that style() has issued so far
Issued == {o \in StyleObjs : toString[o] # Undefined}
Leaves == {UndefinedC, FalseC} \cup {Handle(o) : o \in Issued}
\* arrays nested in a collection: the empty array and the one-entry arrays
Nested == {Arr(<<>>)} \cup {Arr(<<c>>) : c \in Leaves}
\* the collections of the model: a leaf, or an array of leaves and nested arrays
Collections == Leaves \cup {Arr(s) : s \in SeqsUpTo(Leaves \cup Nested, MaxItems)}
\* the collections that the callers resolve in a run
CalledCollections ==
    {Handle(o) : o \in Issued}
        \cup {Arr(<<Handle(o), Handle(q)>>) : o \in Issued, q \in Issued}
        \cup {Arr(<<Handle(o), Arr(<<>>)>>) : o \in Issued}

\* Boolean(c) of Array.prototype.filter(Boolean)
Truthy(c) == c.kind \notin {"undefined", "false"}

\* variant: only a flag that is false counts as unrendered
resolveHandle_falseOnly(obj) ==
    IF StyleRendered[obj] # "false" \/ ~stylesheetRequired
    THEN [threw |-> FALSE, value |-> ToStr(obj)]
    ELSE [threw |-> TRUE, value |-> NotRenderedMessage(ToStr(obj))]

\* the last two statements of classes, for a single handle
resolveHandle(obj) ==
    IF StyleRendered[obj] = "true" \/ ~stylesheetRequired
    THEN [threw |-> FALSE, value |-> ToStr(obj)]
    ELSE [threw |-> TRUE, value |-> NotRenderedMessage(ToStr(obj))]

RECURSIVE classes(_)
RECURSIVE mapJoin(_)
\* items.map(classes).join(' '): the first element that throws ends the call
mapJoin(items) ==
    IF items = <<>> THEN [threw |-> FALSE, value |-> ""]
    ELSE LET h == classes(Head(items))
         IN  IF h.threw THEN h
             ELSE LET t == mapJoin(Tail(items))
                  IN  IF t.threw THEN t
                      ELSE [threw |-> FALSE,
                            value |-> IF Tail(items) = <<>> THEN h.value
                                      ELSE h.value \o " " \o t.value]

classes(styleCollection) ==
    IF ~Truthy(styleCollection) THEN [threw |-> FALSE, value |-> ""]
    ELSE IF styleCollection.kind = "array"
    THEN mapJoin(SelectSeq(styleCollection.items, Truthy))
    ELSE resolveHandle(styleCollection.obj)

Classes(styleCollection) ==
    LET r == classes(styleCollection)
    IN  /\ ret' = [Call("classes", "", "", r.threw, r.value, Undefined) EXCEPT !.arg = styleCollection]
        /\ UNCHANGED <<ledger, stylesheetRequired, hmrEnabled, updateTimeout,
                       stylesheet, heap, alloc, flushed>>

\* ---- the ledger and its callers -----------------------------------------
Next ==
    \/ \E site \in Sites : style(site[1], NextStyleObj, site[2]) /\ UNCHANGED <<history, aside, innerHTML, emitted>>
    \/ \E site \in Sites : animation(site[1], NextKeyframeObj, site[2]) /\ UNCHANGED <<history, aside, innerHTML, emitted>>
    \/ \E p \in Properties, site \in VariableSites : variable(p, site[1], site[2]) /\ UNCHANGED <<history, aside, innerHTML, emitted>>
    \/ updateStylesheet /\ UNCHANGED <<history, aside, emitted>>
    \/ updateTimeoutFires /\ UNCHANGED <<history, aside, emitted>>
    \/ \E b \in BOOLEAN : requireStylesheet(b) /\ UNCHANGED <<history, aside, innerHTML, emitted>>
    \/ \E b \in BOOLEAN : enableHmrSupport(b) /\ UNCHANGED <<history, aside, innerHTML, emitted>>
    \/ resetStyles /\ UNCHANGED <<history, aside, innerHTML, emitted>>
    \/ \E c \in CalledCollections : Classes(c) /\ UNCHANGED <<history, aside, innerHTML, emitted>>

Spec == Init /\ [][Next]_vars

\* ---- styles and their class lists ---------------------------------------
NextClasses ==
    \/ \E site \in Sites : nStyleObjs < MaxHandles /\ style(site[1], NextStyleObj, site[2]) /\ UNCHANGED <<history, aside, innerHTML, emitted>>
    \/ updateStylesheet /\ UNCHANGED <<history, aside, emitted>>
    \/ updateTimeoutFires /\ UNCHANGED <<history, aside, emitted>>
    \/ \E b \in BOOLEAN : requireStylesheet(b) /\ UNCHANGED <<history, aside, innerHTML, emitted>>
    \/ resetStyles /\ UNCHANGED <<history, aside, innerHTML, emitted>>
    \/ \E c \in CalledCollections : Classes(c) /\ UNCHANGED <<history, aside, innerHTML, emitted>>

SpecClasses == Init /\ [][NextClasses]_vars

\* ---- two runs of registrations around one resetStyles --------------------
\* firstRun logs the calls from construction to the first resetStyles,
\* secondRun the calls after it.
Logged ==
    IF phase = "first"
    THEN firstRun' = Append(firstRun, ret') /\ UNCHANGED <<phase, secondRun>>
    ELSE secondRun' = Append(secondRun, ret') /\ UNCHANGED <<phase, firstRun>>

NextReset ==
    \/ \E site \in Sites : style(site[1], NextStyleObj, site[2]) /\ Logged /\ UNCHANGED <<aside, innerHTML, emitted>>
    \/ \E site \in Sites : animation(site[1], NextKeyframeObj, site[2]) /\ Logged /\ UNCHANGED <<aside, innerHTML, emitted>>
    \/ \E p \in Properties, site \in VariableSites : variable(p, site[1], site[2]) /\ Logged /\ UNCHANGED <<aside, innerHTML, emitted>>
    \/ phase = "first" /\ resetStyles /\ phase' = "second"
        /\ UNCHANGED <<firstRun, secondRun, aside, innerHTML, emitted>>

SpecReset == Init /\ [][NextReset]_vars

\* ---- cssRules, fontFace, getCss ---------------------------------------------
cssRules(rules) ==
    /\ updateTimeout' = autoUpdateStylesheet
    /\ registeredRules' = Append(registeredRules, rules)
    /\ ret' = Call("cssRules", "", "", FALSE, "", Undefined)
    /\ UNCHANGED <<registeredFontFaces, registeredStyles, registeredKeyframes,
                   registeredVariables, stylesheetRequired, hmrEnabled, stylesheet,
                   heap, alloc, flushed>>

\* definition.fontFamily of the definitions of the model
fontFamily(definition) ==
    LET at == {i \in 1..Len(definition.entries) : definition.entries[i][1] = <<"font", "Family">>}
    IN  Show(definition.entries[CHOOSE i \in at : TRUE][2])

\* the definition is stored and returned with toString = () => fontFamily
fontFace(definition) ==
    /\ updateTimeout' = autoUpdateStylesheet
    /\ registeredFontFaces' =
            Append(registeredFontFaces,
                   [definition EXCEPT !.toString = Some(fontFamily(definition))])
    /\ ret' = Call("fontFace", "", "", FALSE, fontFamily(definition), Undefined)
    /\ UNCHANGED <<registeredRules, registeredStyles, registeredKeyframes,
                   registeredVariables, stylesheetRequired, hmrEnabled, stylesheet,
                   heap, alloc, flushed>>

\* getCss(): the text is returned; emitted is the array that the last call
\* joined, when that call was getCss
GetCss ==
    /\ ret' = Call("getCss", "", "", FALSE, getCss, Undefined)
    /\ emitted' = getCssEntries
    /\ UNCHANGED <<ledger, stylesheetRequired, hmrEnabled, updateTimeout, stylesheet,
                   heap, alloc, flushed>>

\* ---- the stylesheet text -----------------------------------------------------
\* the style node { width: n }
WidthNode(n) == Node(<< <<(<<"width">>), Num(n)>> >>)
\* the raw rules and font faces held by the ledger
RawEntries == Len(registeredRules) + Len(registeredFontFaces)

NextSheet ==
    \/ \E site \in {<<"a", "m1">>}, styles \in {Node(<<>>), WidthNode(1)} :
            /\ style(site[1], NextStyleObj, site[2])
            /\ contents' = [contents EXCEPT ![NextStyleObj] = styles]
            /\ emitted' = <<>>
            /\ UNCHANGED <<history, handles, input, output, innerHTML>>
    \/ \E site \in {<<"a", "m1">>},
          keyframes \in {<< <<Str("from"), << <<(<<"width">>), Num(1)>> >> >> >>} :
            /\ animation(site[1], NextKeyframeObj, site[2])
            /\ contents' = [contents EXCEPT ![NextKeyframeObj] = keyframes]
            /\ emitted' = <<>>
            /\ UNCHANGED <<history, handles, input, output, innerHTML>>
    \/ \E rules \in {RulesObj(<< <<Sel(<<".", "test1">>), WidthNode(1)>> >>),
                      RulesObj(<< <<Sel(<<".", "test2">>), Node(<<>>)>> >>)} :
            /\ RawEntries < MaxItems
            /\ cssRules(rules)
            /\ emitted' = <<>>
            /\ UNCHANGED <<history, aside, innerHTML>>
    \/ \E definition \in {FontFace(<< <<(<<"font", "Family">>), Str("test")>>,
                                        <<(<<"src">>), Str("local(font)")>> >>)} :
            /\ RawEntries < MaxItems
            /\ fontFace(definition)
            /\ emitted' = <<>>
            /\ UNCHANGED <<history, aside, innerHTML>>
    \/ GetCss /\ UNCHANGED <<history, aside, innerHTML>>
    \/ updateStylesheet /\ emitted' = <<>> /\ UNCHANGED <<history, aside>>
    \/ updateTimeoutFires /\ emitted' = <<>> /\ UNCHANGED <<history, aside>>

SpecSheet == Init /\ [][NextSheet]_vars

\* ---- variables and their handles ---------------------------------------------
\* a value given to set() or or(): a literal or a handle
Values == {Str("x"), Num(1)} \cup {Ref(i) : i \in 1..Len(handles)}

\* variable(): the object createVariable(varName, property) is registered and returned
Variable(property, name, callerModule) ==
    /\ Len(handles) < MaxHandleObjects
    /\ nVariables < MaxHandles
    /\ variable(property, name, callerModule)
    /\ \E i \in 1..Len(registeredVariables') :
            /\ registeredVariables'[i].name = ret'.value
            /\ handles' = Append(handles,
                                 createVariable(registeredVariables'[i].tokens, property, Undef))

OutcomeOf(op, i, value, threw, text, ref) ==
    [Call(op, Concat(handles[i].name), "", threw, text, ref)
        EXCEPT !.arg = [handle |-> i, value |-> value]]

\* v.set(value), and the declaration that elementStyle makes of the result
Set(i, value) ==
    LET r == set(handles, i, value)
        declaration ==
            IF r.threw THEN ""
            ELSE cssProperties(splitProperties(r.value, <<"inline">>).properties)
    IN  /\ ret' = OutcomeOf("set", i, value, r.threw,
                            IF r.threw THEN r.value ELSE declaration, Undefined)
        /\ output' = IF r.threw THEN Undefined ELSE Some(r.value)
        /\ UNCHANGED <<ledger, stylesheetRequired, hmrEnabled, updateTimeout, stylesheet,
                       heap, alloc, flushed, handles>>

\* v.or(newFallback), and the string form of the handle it returns
Or(i, newFallback) ==
    LET r == or(handles, i, newFallback)
    IN  /\ Len(r.heap) <= MaxHandleObjects
        /\ handles' = r.heap
        /\ ret' = OutcomeOf("or", i, newFallback, FALSE,
                            variableToString(r.heap, r.ref), Some(r.ref))
        /\ UNCHANGED <<ledger, stylesheetRequired, hmrEnabled, updateTimeout, stylesheet,
                       heap, alloc, flushed, output>>

\* v.toString()
VariableToString(i) ==
    /\ ret' = OutcomeOf("toString", i, Undef, FALSE, variableToString(handles, i), Undefined)
    /\ UNCHANGED <<ledger, stylesheetRequired, hmrEnabled, updateTimeout, stylesheet,
                   heap, alloc, flushed, handles, output>>

NextVariables ==
    \/ \E p \in {"transitionDelay"} :
            /\ Variable(p, "a", "m1")
            /\ UNCHANGED <<history, contents, input, output, innerHTML, emitted>>
    \/ \E i \in 1..Len(handles), value \in Values :
            Set(i, value) /\ UNCHANGED <<history, contents, input, innerHTML, emitted>>
    \/ \E i \in 1..Len(handles), value \in Values :
            Or(i, value) /\ UNCHANGED <<history, contents, input, innerHTML, emitted>>
    \/ \E i \in 1..Len(handles) :
            VariableToString(i) /\ UNCHANGED <<history, contents, input, innerHTML, emitted>>

SpecVariables == Init /\ [][NextVariables]_vars

\* ---- the compiler on its own ---------------------------------------------------
\* The rule sets handed to css(): the rule '.test' with declarations, an
\* animation and one nested entry, and some rule sets in the array form.
Test == <<".", "test">>
Width == <<"width">>
\* keyframe object 1 is the one that animation() registers in these runs,
\* 2 and 3 stay inline
Anonymous(k) == AnimationDefinition(Undef, Some(<<"k", k>>), Undef)
Named(k) == AnimationDefinition(Tok(<<"named-animation">>), Some(<<"k", k>>), Num(100))
Registered == AnimationDefinition(Tok(<<"a-0">>), Some(<<"k", 1>>), Undef)
Media == <<"@", "media", " ", "screen">>
Supports == <<"@", "supports", " ", "(", "display", ":", " ", "grid", ")">>
AtRuleChildren == {Media, Supports, <<"@", "scope">>, <<"@", "starting-style">>}
SelectorChildren ==
    {<<"&", ":", "hover">>, <<"input", "&">>, <<"input">>, <<"&", " ", "&">>}
OtherChildren == {<<"@", "page">>}
PseudoKeys == {<<":", "hover">>, <<":", ":", "before">>}

ChildNodes ==
    {Node(<<>>),
     WidthNode(2),
     Node(<< <<Width, Num(2)>>, <<(<<":", ":", "before">>), WidthNode(3)>> >>),
     Node(<< <<(<<"$">>), RulesObj(<< <<Sel(Supports), WidthNode(4)>> >>)>> >>),
     Node(<< <<(<<"animation">>), Anonymous(3)>> >>),
     Node(<< <<Width, Num(2)>>,
             <<(<<"$">>), RulesObj(<< <<Sel(<<"input">>), WidthNode(3)>> >>)>> >>)}

\* the entries of the node { width: 1, animation: { keyframes }, ':hover':
\* { width: 2 }, $: [[['input', 'button'], { width: 3 }]] }, which the
\* callers write in any order and hand over as css([['.test', node]])
WrittenEntries ==
    << <<Width, Num(1)>>,
       <<(<<"animation">>), Anonymous(2)>>,
       <<(<<":", "hover">>), WidthNode(2)>>,
       <<(<<"$">>), RulesArr(<< <<SelList(<<(<<"input">>), (<<"button">>)>>), WidthNode(3)>> >>)>> >>

\* the declarations <<property, value>> whose value the formatter is tried on
ValueInputs ==
    {<<(<<"width">>), Num(5)>>,
     <<(<<"width">>), Str("5%")>>,
     <<(<<"margin", "Left">>), Num(3)>>,
     <<(<<"opacity">>), Num(1)>>,
     <<(<<"transition", "Delay">>), Num(1)>>,
     <<(<<"transform">>), Obj(<< <<(<<"translate", "X">>), Num(5)>> >>)>>,
     <<(<<"transform">>), Obj(<< <<(<<"scale", "X">>), Num(2)>> >>)>>,
     <<(<<"transform">>), Obj(<< <<(<<"rotate3d">>), ArrV(<<Num(1), Num(2), Num(3), Num(4)>>)>>,
                               <<(<<"skew">>), Num(5)>> >>)>>,
     <<(<<"line", "Height">>), Obj(<< <<(<<"calc">>), Num(2)>> >>)>>,
     <<(<<"grid", "Template", "Rows">>),
       Obj(<< <<(<<"repeat">>),
                ArrV(<<Num(1), ArrV(<<Num(2), Obj(<< <<(<<"minmax">>), ArrV(<<Num(3), Num(4)>>)>> >>)>>)>>)>> >>)>>,
     <<(<<"transition", "Property">>), ArrV(<<Str("width"), Str("height")>>)>>,
     <<(<<"transition", "Property">>), ArrV(<<Str("width"), ArrV(<<Str("height"), Str("color")>>)>>)>>,
     <<(<<"margin">>), ArrV(<<Num(1), Str("2em")>>)>>,
     <<(<<"margin">>), ArrV(<<Num(1), ArrV(<<Num(2), Num(3)>>)>>)>>,
     <<(<<"grid", "Template">>), ArrV(<<Num(1), Num(2)>>)>>,
     <<(<<"grid", "Template">>), ArrV(<<Str("max-content"), ArrV(<<Num(1), Num(2)>>)>>)>>,
     <<(<<"grid", "Template">>), ArrV(<<ArrV(<<Num(1), Num(2)>>), ArrV(<<Num(3), Num(4)>>)>>)>>}

\* css({ '.test': { ...declarations, animation, nested entry } })
TestRule(declarations, animationEntry, nestedEntry) ==
    RulesObj(<< <<Sel(Test), Node(declarations \o animationEntry \o nestedEntry)>> >>)

\* the declarations, the animation entry and the nested entry of '.test' vary
\* independently
RuleInputs ==
    LET declarations == {<<>>, << <<Width, Num(1)>> >>, << <<Width, Undef>> >>}
        animations ==
            {Str("custom 123s"), Anonymous(2), Named(2), Registered,
             ArrV(<<Anonymous(2), Anonymous(3)>>),
             ArrV(<<Str("custom 123s"), Anonymous(2)>>),
             ArrV(<<Anonymous(2), Registered, Named(3)>>)}
        animationEntries == {<<>>} \cup {<< <<(<<"animation">>), a>> >> : a \in animations}
        nestedEntries ==
            {<<>>}
                \cup {<< <<key, n>> >> : key \in PseudoKeys, n \in ChildNodes}
                \cup {<< <<(<<"$">>), RulesObj(<< <<Sel(c), n>> >>)>> >> :
                        c \in AtRuleChildren \cup SelectorChildren \cup OtherChildren,
                        n \in ChildNodes}
        arrayInputs ==
            {RulesArr(<< <<SelList(<<(<<".", "foo">>), (<<".", "bar">>)>>),
                           Node(<< <<(<<"$">>),
                                     RulesArr(<< <<SelList(<<(<<".", "baz">>), (<<".", "qux">>)>>),
                                                   WidthNode(1)>> >>)>> >>)>> >>),
             RulesArr(<< <<Sel(Test), Node(<< <<(<<"animation">>), Anonymous(2)>> >>)>>,
                         <<Sel(Test), Node(<< <<(<<"animation">>), Anonymous(3)>> >>)>> >>),
             RulesObj(<< <<Sel(<<"@", "page">>), Node(<< <<(<<"margin">>), Str("1cm")>> >>)>> >>)}
        reordered ==
            {RulesArr(<< <<Sel(Test), Node([i \in 1..4 |-> WrittenEntries[p[i]]])>> >>) :
                p \in Permutations(1..4)}
        topLevel ==
            {RulesObj(<< <<Sel(c), WidthNode(2)>> >>) :
                c \in {Test} \cup SelectorChildren \cup AtRuleChildren \cup OtherChildren}
    IN  {TestRule(d, a, n) : d \in declarations, a \in animationEntries, n \in nestedEntries}
            \cup arrayInputs \cup reordered \cup topLevel
            \cup {TestRule(<<v>>, <<>>, <<>>) : v \in ValueInputs}

InitCss ==
    /\ InitLedger
    /\ contents = [o \in Objs |->
                        IF o \in StyleObjs THEN Node(<<>>)
                        ELSE << <<Str("to"), << <<Width, Num(o[2])>> >> >> >>]
    /\ input \in RuleInputs

\* variant: css marks the keyframe sets as rendered
Css_marksRendered ==
    /\ ret' = Call("css", "", "", FALSE, css(input), Undefined)
    /\ output' = Some([rules |-> cssRuleStrings(input), text |-> css(input)])
    /\ StyleRendered' = [o \in Objs |-> IF o \in KeyframeObjs THEN "true" ELSE StyleRendered[o]]
    /\ UNCHANGED <<ledger, stylesheetRequired, hmrEnabled, updateTimeout, stylesheet,
                   toString, alloc, flushed, handles>>

\* css(input): the text is returned; output keeps the rule strings as well
Css ==
    /\ ret' = Call("css", "", "", FALSE, css(input), Undefined)
    /\ output' = Some([rules |-> cssRuleStrings(input), text |-> css(input)])
    /\ UNCHANGED <<ledger, stylesheetRequired, hmrEnabled, updateTimeout, stylesheet,
                   heap, alloc, flushed, handles>>

NextCss ==
    \/ Css /\ emitted' = <<>> /\ UNCHANGED <<history, contents, input, innerHTML>>
    \/ /\ nKeyframeObjs < 1
       /\ animation("a", NextKeyframeObj, "m1")
       /\ emitted' = <<>>
       /\ UNCHANGED <<history, aside, innerHTML>>
    \/ GetCss /\ UNCHANGED <<history, aside, innerHTML>>

SpecCss == InitCss /\ [][NextCss]_vars

\* ---- registered keyframe sets and the styles that use them ----------------------
\* the definitions that animation(name, keyframes) has returned so far: the
\* registered name as animationName, and the set
Definitions ==
    {AnimationDefinition(Tok(<<c.value>>), c.registered, Undef) :
        c \in {d \in {firstRun[i] : i \in 1..Len(firstRun)}
                        \cup {secondRun[i] : i \in 1..Len(secondRun)} : ~d.threw}}

\* keyframe object i is { to: { width: i } }
InitKeyframes ==
    /\ InitLedger
    /\ contents = [o \in Objs |->
                        IF o \in StyleObjs THEN Node(<<>>)
                        ELSE << <<Str("to"), << <<Width, Num(o[2])>> >> >> >>]
    /\ input = RulesObj(<<>>)

\* styles are registered with { width: 1 } or { animation: definition }, for
\* the definitions issued so far; resetStyles runs at most once
NextKeyframes ==
    \/ /\ nKeyframeObjs < MaxHandles
       /\ animation("a", NextKeyframeObj, "m1")
       /\ Logged
       /\ emitted' = <<>>
       /\ UNCHANGED <<aside, innerHTML>>
    \/ \E styles \in {WidthNode(1)} \cup {Node(<< <<(<<"animation">>), d>> >>) : d \in Definitions} :
            /\ style("s", NextStyleObj, "m1")
            /\ contents' = [contents EXCEPT ![NextStyleObj] = styles]
            /\ emitted' = <<>>
            /\ UNCHANGED <<history, handles, input, output, innerHTML>>
    \/ GetCss /\ UNCHANGED <<history, aside, innerHTML>>
    \/ updateStylesheet /\ emitted' = <<>> /\ UNCHANGED <<history, aside>>
    \/ updateTimeoutFires /\ emitted' = <<>> /\ UNCHANGED <<history, aside>>
    \/ /\ phase = "first"
       /\ resetStyles
       /\ phase' = "second"
       /\ emitted' = <<>>
       /\ UNCHANGED <<firstRun, secondRun, aside, innerHTML>>

SpecKeyframes == InitKeyframes /\ [][NextKeyframes]_vars

\* ---- the declaration blocks ------------------------------------------------
\* elementStyle(styles): the warnings it hands to console.warn, the properties
\* it sets on the result, and what the result's toString returns
elementStyle(styles) ==
    [warnings |->
        (IF splitProperties(styles, <<"inline">>).nested # <<>>
         THEN <<"Cannot put nested properties in an element style:">> ELSE <<>>)
        \o (IF splitProperties(styles, <<"inline">>).keyframes # <<>>
            THEN <<"Cannot put keyframes inline in an element style:">> ELSE <<>>),
     toString |-> cssProperties(splitProperties(styles, <<"inline">>).properties)]

\* the node under '.test' varies: its declarations, some with the value
\* undefined, and one entry that is a pseudo key, a '$' rule set or an animation
InitBlocks ==
    /\ InitLedger
    /\ contents = [o \in Objs |->
                        IF o \in StyleObjs THEN Node(<<>>)
                        ELSE << <<Str("to"), << <<Width, Num(o[2])>> >> >> >>]
    /\ input \in {TestRule(d, <<>>, n) :
                    d \in {<<>>, << <<Width, Num(1)>> >>, << <<Width, Undef>> >>,
                           << <<Width, Num(1)>>, <<(<<"src">>), Undef>> >>,
                           << <<(<<"font", "Family">>), Str("test")>>, <<(<<"src">>), Undef>> >>,
                           << <<(<<"font", "Family">>), Str("test")>>, <<(<<"src">>), Str("local(font)")>> >>},
                    n \in {<<>>,
                           << <<(<<":", "hover">>), WidthNode(2)>> >>,
                           << <<(<<"$">>), RulesObj(<< <<Sel(<<"input">>), WidthNode(3)>> >>)>> >>,
                           << <<(<<"animation">>), Anonymous(2)>> >>,
                           << <<(<<"animation">>), Str("custom 123s")>> >>}}

\* elementStyle(node): the declarations are returned, output keeps the warnings
ElementStyle ==
    /\ ret' = Call("elementStyle", "", "", FALSE, elementStyle(input.entries[1][2]).toString, Undefined)
    /\ output' = Some([rules |-> <<>>, text |-> elementStyle(input.entries[1][2]).toString,
                       warnings |-> elementStyle(input.entries[1][2]).warnings])
    /\ UNCHANGED <<ledger, stylesheetRequired, hmrEnabled, updateTimeout, stylesheet,
                   heap, alloc, flushed, handles>>

\* keyframesCss('test', { to: node }); keyframesCss calls no console.warn
KeyframesCss ==
    /\ ret' = Call("keyframesCss", "test", "", FALSE,
                   keyframesCss("test", << <<Str("to"), input.entries[1][2].entries>> >>), Undefined)
    /\ output' = Some([rules |-> <<>>, text |-> ret'.value, warnings |-> <<>>])
    /\ UNCHANGED <<ledger, stylesheetRequired, hmrEnabled, updateTimeout, stylesheet,
                   heap, alloc, flushed, handles>>

\* fontFaceCss(node); fontFaceCss calls no console.warn
FontFaceCss ==
    /\ ret' = Call("fontFaceCss", "", "", FALSE,
                   fontFaceCss(FontFace(input.entries[1][2].entries)), Undefined)
    /\ output' = Some([rules |-> <<>>, text |-> ret'.value, warnings |-> <<>>])
    /\ UNCHANGED <<ledger, stylesheetRequired, hmrEnabled, updateTimeout, stylesheet,
                   heap, alloc, flushed, handles>>

NextBlocks ==
    \/ Css /\ UNCHANGED <<history, contents, input, innerHTML, emitted>>
    \/ ElementStyle /\ UNCHANGED <<history, contents, input, innerHTML, emitted>>
    \/ KeyframesCss /\ UNCHANGED <<history, contents, input, innerHTML, emitted>>
    \/ FontFaceCss /\ UNCHANGED <<history, contents, input, innerHTML, emitted>>

SpecBlocks == InitBlocks /\ [][NextBlocks]_vars

\* ---- the scheduled update ----------------------------------------------------
\* the five registering calls, the first update that creates the stylesheet
\* element, the timer, resetStyles
NextAuto ==
    \/ \E site \in Sites : style(site[1], NextStyleObj, site[2]) /\ UNCHANGED <<history, aside, innerHTML, emitted>>
    \/ animation("a", NextKeyframeObj, "m1") /\ UNCHANGED <<history, aside, innerHTML, emitted>>
    \/ variable("width", "a", "m1") /\ UNCHANGED <<history, aside, innerHTML, emitted>>
    \/ /\ Len(registeredRules) < 1
       /\ cssRules(RulesObj(<< <<Sel(<<".", "test1">>), WidthNode(1)>> >>))
       /\ UNCHANGED <<history, aside, innerHTML, emitted>>
    \/ /\ Len(registeredFontFaces) < 1
       /\ fontFace(FontFace(<< <<(<<"font", "Family">>), Str("test")>> >>))
       /\ UNCHANGED <<history, aside, innerHTML, emitted>>
    \/ updateStylesheet /\ UNCHANGED <<history, aside, emitted>>
    \/ updateTimeoutFires /\ UNCHANGED <<history, aside, emitted>>
    \/ resetStyles /\ UNCHANGED <<history, aside, innerHTML, emitted>>

\* a timer that is set and not cleared fires: the steps that take a pending
\* timer away are those of updateTimeoutFires
SpecAuto ==
    Init /\ [][NextAuto]_vars
        /\ WF_updateTimeout(updateTimeout > 0 /\ updateTimeout' = updateTimeout - 1)

\* ======================= properties ======================================
RegOps == {"style", "animation", "variable"}

\* the handles of a collection, depth first and left to right
RECURSIVE FlatHandles(_)
RECURSIVE FlatItems(_)
FlatItems(items) ==
    IF items = <<>> THEN <<>> ELSE FlatHandles(Head(items)) \o FlatItems(Tail(items))

FlatHandles(c) ==
    IF c.kind = "handle" THEN <<c.obj>>
    ELSE IF c.kind = "array" THEN FlatItems(c.items)
    ELSE <<>>

\* the names of a sequence of handles, separated by single spaces
RECURSIVE JoinNames(_)
JoinNames(objs) ==
    IF objs = <<>> THEN ""
    ELSE IF Len(objs) = 1 THEN ToStr(objs[1])
    ELSE ToStr(objs[1]) \o " " \o JoinNames(Tail(objs))

Least(S) == CHOOSE i \in S : \A j \in S : i <= j
FlatArray(c) == c.kind = "array" /\ \A i \in 1..Len(c.items) : c.items[i].kind # "array"

\* C1: a handle's string is the generated name its record holds; with
\* enforcement on, classes throws exactly when the collection contains a
\* handle whose flag is not true, and the message names the first such
\* handle; otherwise (all rendered, or enforcement off) it does not throw,
\* returns the name for a single handle and the names of the handles for an
\* array of handles, false and undefined.
ClassesEnforcement ==
    /\ \A i \in 1..Len(registeredStyles) :
            ToStr(registeredStyles[i].payload) = registeredStyles[i].name
    /\ \A c \in Collections :
        LET r == classes(c)
            hs == FlatHandles(c)
            unrendered == {i \in 1..Len(hs) : StyleRendered[hs[i]] # "true"}
        IN  IF stylesheetRequired /\ unrendered # {}
            THEN r.threw /\ r.value = NotRenderedMessage(ToStr(hs[Least(unrendered)]))
            ELSE /\ ~r.threw
                 /\ c.kind = "handle" => r.value = ToStr(c.obj)
                 /\ FlatArray(c) => r.value = JoinNames(hs)

\* a call of classes on an array with a rendered and an unrendered handle threw
ClassesThrewOnMixedArray ==
    /\ ret.op = "classes" /\ ret.threw /\ stylesheetRequired
    /\ ret.arg.kind = "array"
    /\ \E i, j \in 1..Len(FlatHandles(ret.arg)) :
            /\ StyleRendered[FlatHandles(ret.arg)[i]] = "true"
            /\ StyleRendered[FlatHandles(ret.arg)[j]] # "true"

\* C10: classes(collection) returns exactly the names of the handles in the
\* collection, depth first, separated by single spaces; false, undefined
\* and empty collections contribute nothing.
ClassesJoinsNames ==
    (ret.op = "classes" /\ ~ret.threw) => ret.value = JoinNames(FlatHandles(ret.arg))

\* the registry a registration call works on, before and after the call
RegistryOf(op) ==
    IF op = "style" THEN registeredStyles
    ELSE IF op = "animation" THEN registeredKeyframes
    ELSE registeredVariables

RegistryAfter(op) ==
    IF op = "style" THEN registeredStyles'
    ELSE IF op = "animation" THEN registeredKeyframes'
    ELSE registeredVariables'

NamePrefix(op) == IF op = "variable" THEN "--" ELSE ""

\* a call appended one record to `before`, named <prefix><base>-<length
\* of before>, and returned that name
AppendedAtLength(before, after, call) ==
    /\ ~call.threw
    /\ call.value = NamePrefix(call.op) \o call.name \o "-" \o ToString(Len(before))
    /\ Len(after) = Len(before) + 1
    /\ SubSeq(after, 1, Len(before)) = before
    /\ after[Len(after)].name = call.value

\* C2: outside HMR mode every registration (style, named animation,
\* variable) returns <base name>-<number of records already in its
\* registry> and appends one record of that name; the registries shrink
\* only in resetStyles and change in no call that is not a registration.
DefaultModeSuffix ==
    [][ /\ (~hmrEnabled /\ ret'.op \in RegOps) =>
                AppendedAtLength(RegistryOf(ret'.op), RegistryAfter(ret'.op), ret')
        /\ ret'.op \notin (RegOps \cup {"resetStyles"}) => UNCHANGED ledger
      ]_vars

\* outside HMR mode the same base name was registered twice and got -0, -1
SameBaseTwiceInDefaultMode ==
    /\ ~hmrEnabled /\ ret.op = "style" /\ ret.value = "a-1"
    /\ Len(registeredStyles) = 2
    /\ registeredStyles[1].name = "a-0" /\ registeredStyles[1].id = Undefined
    /\ registeredStyles[2].name = "a-1" /\ registeredStyles[2].id = Undefined

NamesDiffer(registry) ==
    \A i, j \in 1..Len(registry) : i # j => registry[i].name # registry[j].name

\* C3: no two records of the same registry have the same generated name.
UniqueGeneratedNames ==
    /\ NamesDiffer(registeredStyles)
    /\ NamesDiffer(registeredKeyframes)
    /\ NamesDiffer(registeredVariables)

\* in HMR mode a slot was registered again after an update, and the same
\* base name was then registered from another module
SlotReusedAndSameBaseAdded ==
    /\ hmrEnabled /\ nStyleObjs = 3
    /\ Len(registeredStyles) = 2
    /\ registeredStyles[1].payload = <<"s", 2>>
    /\ registeredStyles[2].payload = <<"s", 3>>

\* C5: after updateStylesheet every current record, style or keyframe set,
\* has a rendered flag of true.
UpdateRendersEveryRecord ==
    ret.op = "updateStylesheet" =>
        \A o \in Payloads(registeredStyles) \cup Payloads(registeredKeyframes) :
            StyleRendered[o] = "true"

\* C6: after resetStyles the ledger is empty, classes (enforcement on)
\* throws for every style handle issued before, and no keyframe set is
\* still treated as registered by the compiler.
ResetStripsEveryPayload ==
    ret.op = "resetStyles" =>
        /\ registeredFontFaces = <<>> /\ registeredRules = <<>>
        /\ registeredStyles = <<>> /\ registeredKeyframes = <<>>
        /\ \A o \in Issued : stylesheetRequired => classes(Handle(o)).threw
        /\ \A k \in KeyframeObjs : ~treatedAsRegistered(k)

SlotsOf(before, call) ==
    {i \in 1..Len(before) : before[i].id = Some(call.name \o ":" \o call.module)}

\* C8: in HMR mode a registration whose identity matches a record that an
\* updateStylesheet has seen succeeds, returns the record's name, replaces
\* the slot's payload and leaves the registry's length unchanged, for
\* styles and for keyframe sets.
HmrReusesSlot ==
    [][ (hmrEnabled /\ ret'.op \in {"style", "animation"}) =>
            \A i \in SlotsOf(RegistryOf(ret'.op), ret') :
                RegistryOf(ret'.op)[i].payload \in flushed =>
                    /\ ~ret'.threw
                    /\ ret'.value = RegistryOf(ret'.op)[i].name
                    /\ Len(RegistryAfter(ret'.op)) = Len(RegistryOf(ret'.op))
                    /\ RegistryAfter(ret'.op)[i].payload = ret'.registered[1]
      ]_vars

\* C9: in HMR mode a registration whose identity matches a record whose
\* payload is not marked rendered throws the error naming the suffixed
\* name and leaves registry and flags as they were; outside HMR mode no
\* registration throws.
HmrDuplicateThrows ==
    [][ /\ (hmrEnabled /\ ret'.op \in {"style", "animation"}) =>
            \A i \in SlotsOf(RegistryOf(ret'.op), ret') :
                StyleRendered[RegistryOf(ret'.op)[i].payload] # "true" =>
                    /\ ret'.threw
                    /\ ret'.value = RegisteredTwiceMessage(RegistryOf(ret'.op)[i].name)
                    /\ UNCHANGED <<ledger, StyleRendered, toString>>
        /\ (~hmrEnabled /\ ret'.op \in RegOps) => ~ret'.threw
      ]_vars

\* a second registration of an identity before any update threw
DuplicateBeforeUpdateThrew ==
    /\ hmrEnabled /\ ret.op = "style" /\ ret.threw
    /\ ret.value = RegisteredTwiceMessage("a-0")
    /\ Len(registeredStyles) = 1
    /\ registeredStyles[1].payload = <<"s", 1>>
    /\ nStyleObjs = 2

SameCall(e, f) == e.op = f.op /\ e.name = f.name /\ e.module = f.module
SameResult(e, f) == e.threw = f.threw /\ e.value = f.value

\* C4: the registrations made after resetStyles get the names that the
\* same registrations got on the fresh ledger.
ResetReproducesNames ==
    \A i \in 1..Len(secondRun) :
        (i <= Len(firstRun) /\ \A j \in 1..i : SameCall(firstRun[j], secondRun[j]))
            => SameResult(firstRun[i], secondRun[i])

\* the order of the groups in the stylesheet text
GroupRank(group) ==
    CASE group = "fontFace" -> 1 [] group = "rules" -> 2
      [] group = "style" -> 3 [] group = "keyframes" -> 4

RegistryOfGroup(group) ==
    CASE group = "fontFace" -> registeredFontFaces [] group = "rules" -> registeredRules
      [] group = "style" -> registeredStyles [] group = "keyframes" -> registeredKeyframes

\* the text of one record of a registry, on its own
TextOfRecord(group, record) ==
    CASE group = "fontFace" -> fontFaceCss(record)
      [] group = "rules" -> css(record)
      [] group = "style" ->
            css(RulesObj(<< <<Sel(<<".", record.name>>), contents[record.payload]>> >>))
      [] group = "keyframes" -> keyframesCss(record.name, contents[record.payload])

\* C11: the text getCss returns is made of one entry per record of the
\* four registries, whatever the order of the registration calls: font
\* faces before raw rules before styles (compiled under '.' + generated
\* name) before keyframe blocks, and by slot inside a group; the text is
\* the entries joined by newlines.
SheetInEmissionOrder ==
    ret.op = "getCss" =>
        /\ Len(emitted) = Len(registeredFontFaces) + Len(registeredRules)
                            + Len(registeredStyles) + Len(registeredKeyframes)
        /\ \A i \in 1..Len(emitted) :
                /\ emitted[i].slot < Len(RegistryOfGroup(emitted[i].group))
                /\ emitted[i].text =
                        TextOfRecord(emitted[i].group,
                                     RegistryOfGroup(emitted[i].group)[emitted[i].slot + 1])
        /\ \A i, j \in 1..Len(emitted) :
                i < j => \/ GroupRank(emitted[i].group) < GroupRank(emitted[j].group)
                         \/ /\ emitted[i].group = emitted[j].group
                            /\ emitted[i].slot < emitted[j].slot
        /\ ret.value = Join([i \in 1..Len(emitted) |-> emitted[i].text], "\n")

\* getCss ran with all four registries filled
SheetWithAllGroups ==
    /\ ret.op = "getCss"
    /\ registeredFontFaces # <<>> /\ registeredRules # <<>>
    /\ registeredStyles # <<>> /\ registeredKeyframes # <<>>
    /\ \E i \in 1..Len(emitted) : emitted[i].text = ".a-0 { width: 1px; }"

\* C12: the text of getCss, and the text updateStylesheet writes before
\* the sourceURL comment, is the newline join of the rule strings that
\* were emitted; a style or rule set that emits nothing adds no entry.
SheetHasNoEmptyEntry ==
    LET texts == [i \in 1..Len(getCssEntries) |-> getCssEntries[i].text]
        expected == Join(SelectSeq(texts, LAMBDA x : x # ""), "\n")
    IN  /\ ret.op = "getCss" => ret.value = expected
        /\ ret.op = "updateStylesheet" => innerHTML = expected \o SourceUrl

\* C13: v.set(v) throws, naming the variable, and returns no assignment.
SelfAssignmentThrows ==
    (ret.op = "set" /\ ret.arg.value = Ref(ret.arg.handle)) =>
        /\ ret.threw
        /\ ret.value = "Variable " \o ret.name \o " cannot be set to itself."
        /\ output = Undefined

\* the fallback chain of a handle: its name, then the chain of its fallback
RECURSIVE Chain(_, _)
Chain(objects, i) ==
    <<[t |-> "name", s |-> Concat(objects[i].name)]>>
        \o (IF isVariable(objects[i].fallback) THEN Chain(objects, objects[i].fallback.ref)
            ELSE IF objects[i].fallback.t = "undef" THEN <<>>
            ELSE <<objects[i].fallback>>)

ChainOfValue(objects, value) ==
    IF isVariable(value) THEN Chain(objects, value.ref) ELSE <<value>>

\* var(--a, var(--b, x)) of a chain, a literal formatted for `property`
RECURSIVE RenderChain(_, _)
RenderChain(chain, property) ==
    IF Head(chain).t = "name"
    THEN "var(" \o Head(chain).s
            \o (IF Len(chain) = 1 THEN "" ELSE ", " \o RenderChain(Tail(chain), property))
            \o ")"
    ELSE Joined(cssPropertyValue(property, Head(chain)))

\* C14: v.or(f) returns a handle of v's name whose chain is v's chain
\* followed by f (by f's chain when f is a handle), its string is the
\* nested var(...) of that chain, and every handle that existed before the
\* call, v included, is as it was.
OrDeepensChain ==
    [][ ret'.op = "or" =>
            LET v == ret'.arg.handle
                r == ret'.registered[1]
                deepened == Chain(handles, v) \o ChainOfValue(handles, ret'.arg.value)
            IN  /\ r > Len(handles)
                /\ handles'[r].name = handles[v].name
                /\ Chain(handles', r) = deepened
                /\ ret'.value = RenderChain(deepened, handles[v].property)
                /\ \A k \in 1..Len(handles) : handles'[k] = handles[k]
      ]_vars

\* a handle used as a value: var(--name) without a fallback, var(--name,
\* <formatted fallback>) with one
RECURSIVE Serialized(_, _, _)
Serialized(objects, i, property) ==
    "var(" \o Concat(objects[i].name)
        \o (IF isVariable(objects[i].fallback)
            THEN ", " \o Serialized(objects, objects[i].fallback.ref, property)
            ELSE IF objects[i].fallback.t = "undef" THEN ""
            ELSE ", " \o Joined(cssPropertyValue(property, objects[i].fallback)))
        \o ")"

\* C15: a.set(b) for another handle b gives the declaration
\* "--a: var(--b);" when b has no fallback and "--a: var(--b, <formatted
\* fallback>);" when it has one.
SetToVariableSerializes ==
    (ret.op = "set" /\ ~ret.threw /\ isVariable(ret.arg.value)
        /\ ret.arg.value.ref # ret.arg.handle) =>
        ret.value = ret.name \o ": "
                        \o Serialized(handles, ret.arg.value.ref, handles[ret.arg.handle].property)
                        \o ";"

\* ---- the parts of a compiled '.test' rule ---------------------------------------
\* the call that just returned is css({ '.test': node })
TestRuleCompiled ==
    /\ ret.op = "css"
    /\ ~input.array
    /\ Len(input.entries) = 1
    /\ input.entries[1][1] = Sel(Test)
\* the node of the rule '.test'
TopNode == input.entries[1][2]
IsNestedKey(key) == key = <<"$">> \/ key[1] = ":"
\* the entries of a node that are declarations with a value
DeclaredOf(node) ==
    SelectSeq(node.entries, LAMBDA e : ~IsNestedKey(e[1]) /\ e[2].t # "undef")
\* the entries of a node that hold nested rules
NestedOf(node) == SelectSeq(node.entries, LAMBDA e : IsNestedKey(e[1]))
\* the elements of a node's animation value
AnimationsOf(node) ==
    LET a == SelectSeq(node.entries, LAMBDA e : e[1] = <<"animation">>)
    IN  IF a = <<>> THEN <<>>
        ELSE IF a[1][2].t = "arr" THEN a[1][2].items ELSE <<a[1][2]>>
\* an animation definition whose keyframe set carries no marker
Unregistered(a) ==
    a.t = "anim" /\ a.keyframes # Undefined /\ StyleRendered[a.keyframes[1]] = "absent"
UnregisteredOf(node) == SelectSeq(AnimationsOf(node), Unregistered)
\* the output of css({ '.test': node }) is the base rule of the node, the
\* output of its nested entries, and its hoisted @keyframes blocks
BaseLength(node) == IF DeclaredOf(node) = <<>> THEN 0 ELSE 1
NestedPart ==
    SubSeq(output[1].rules, BaseLength(TopNode) + 1,
           Len(output[1].rules) - Len(UnregisteredOf(TopNode)))
HoistedPart ==
    SubSeq(output[1].rules, Len(output[1].rules) - Len(UnregisteredOf(TopNode)) + 1,
           Len(output[1].rules))

\* the selector of a child under a parent: every '&' stands for the parent,
\* a child without '&' is a descendant of the parent
RECURSIVE Substitute(_, _)
Substitute(child, parent) ==
    IF child = <<>> THEN <<>>
    ELSE (IF Head(child) = "&" THEN parent ELSE <<Head(child)>>)
            \o Substitute(Tail(child), parent)
Composed(parent, child) ==
    IF \E i \in 1..Len(child) : child[i] = "&"
    THEN Substitute(child, parent)
    ELSE parent \o <<" ">> \o child

\* the node with its pseudo keys ':x' rewritten as nested entries '&:x'
AsNestedEntries(node) ==
    Node([i \in 1..Len(node.entries) |->
            IF node.entries[i][1][1] = ":"
            THEN <<(<<"$">>),
                   RulesObj(<< <<Sel(<<"&">> \o node.entries[i][1]), node.entries[i][2]>> >>)>>
            ELSE node.entries[i]])

\* C16: under the parent '.test', a child selector with '&' is compiled with
\* every '&' replaced by the parent, any other child that is not an at-rule
\* as 'parent child', and a pseudo key ':x' exactly like the nested entry
\* '&:x'.
SelectorComposition ==
    TestRuleCompiled =>
        \A i \in 1..Len(NestedOf(TopNode)) :
            LET e == NestedOf(TopNode)[i]
                child == e[2].entries[1][1].sels[1]
                styles == e[2].entries[1][2]
                selector == Concat(Composed(Test, child))
            IN  /\ (e[1] = <<"$">> /\ child[1] # "@") =>
                    /\ NestedPart = styleRules(Composed(Test, child), styles)
                    /\ styles = WidthNode(2) =>
                            NestedPart = <<selector \o " { width: 2px; }">>
                    /\ styles \in ChildNodes /\ Len(styles.entries) = 2 /\ styles.entries[2][1] = <<"$">> =>
                            NestedPart = <<selector \o " { width: 2px; }",
                                           selector \o " input { width: 3px; }">>
                /\ e[1][1] = ":" =>
                    /\ NestedPart = styleRules(Test \o e[1], e[2])
                    /\ ret.value = css(RulesObj(<< <<Sel(Test), AsNestedEntries(TopNode)>> >>))
                    /\ e[2] = WidthNode(2) =>
                            NestedPart = <<".test" \o Concat(e[1]) \o " { width: 2px; }">>

\* css({ '.test': { width: 1, $: { 'input &': { width: 2, '::before': { width: 3 } } } } })
ComposedSelectorsCompiled ==
    /\ TestRuleCompiled
    /\ input = TestRule(<< <<Width, Num(1)>> >>, <<>>,
                        << <<(<<"$">>),
                             RulesObj(<< <<Sel(<<"input", "&">>),
                                           Node(<< <<Width, Num(2)>>,
                                                   <<(<<":", ":", "before">>), WidthNode(3)>> >>)>> >>)>> >>)
    /\ output[1].rules = <<".test { width: 1px; }",
                           "input.test { width: 2px; }",
                           "input.test::before { width: 3px; }">>

\* the at-rules that wrap the rules nested in them
WrappingAtRules == {"media", "supports", "scope", "starting-style"}

\* C17: a nested child that starts with @media, @supports, @scope or
\* @starting-style has its body compiled against the unchanged parent, and
\* every rule string of the body is wrapped on its own in the child selector,
\* in the same order; nested at-rules wrap outermost first.
AtRuleWrapsEachRule ==
    TestRuleCompiled =>
        \A i \in 1..Len(NestedOf(TopNode)) :
            LET e == NestedOf(TopNode)[i]
                child == e[2].entries[1][1].sels[1]
                styles == e[2].entries[1][2]
                body == styleRules(Test, styles)
                atRule == Concat(child)
            IN  (e[1] = <<"$">> /\ child[1] = "@" /\ child[2] \in WrappingAtRules) =>
                    /\ Len(NestedPart) = Len(body)
                    /\ \A j \in 1..Len(body) :
                            NestedPart[j] = atRule \o " { " \o body[j] \o " }"
                    /\ (Len(styles.entries) = 2 /\ styles.entries[2][1] = <<":", ":", "before">>) =>
                            NestedPart = <<atRule \o " { .test { width: 2px; } }",
                                           atRule \o " { .test::before { width: 3px; } }">>
                    /\ (Len(styles.entries) = 1 /\ styles.entries[1][1] = <<"$">>) =>
                            NestedPart = <<atRule \o " { @supports (display: grid) { .test { width: 4px; } } }">>
                    /\ styles = Node(<<>>) => NestedPart = <<>>

\* css({ '.test': { width: 1, $: { '@scope': { width: 2, '::before': { width: 3 } } } } })
AtRuleBodyCompiled ==
    /\ TestRuleCompiled
    /\ input = TestRule(<< <<Width, Num(1)>> >>, <<>>,
                        << <<(<<"$">>),
                             RulesObj(<< <<Sel(<<"@", "scope">>),
                                           Node(<< <<Width, Num(2)>>,
                                                   <<(<<":", ":", "before">>), WidthNode(3)>> >>)>> >>)>> >>)
    /\ output[1].rules = <<".test { width: 1px; }",
                           "@scope { .test { width: 2px; } }",
                           "@scope { .test::before { width: 3px; } }">>

RECURSIVE SumSeq(_)
SumSeq(numbers) == IF numbers = <<>> THEN 0 ELSE Head(numbers) + SumSeq(Tail(numbers))

\* the number of rule strings a node stands for: one base rule when it has
\* declarations, the rules of its nested entries, one block per inline
\* keyframe set
RECURSIVE RulesOfNode(_)
RECURSIVE RulesOfRules(_)
RulesOfNode(node) ==
    BaseLength(node)
        + SumSeq([i \in 1..Len(NestedOf(node)) |->
                    IF NestedOf(node)[i][1] = <<"$">>
                    THEN RulesOfRules(NestedOf(node)[i][2])
                    ELSE RulesOfNode(NestedOf(node)[i][2])])
        + Len(UnregisteredOf(node))
RulesOfRules(rules) ==
    SumSeq([i \in 1..Len(rules.entries) |->
                Len(rules.entries[i][1].sels) * RulesOfNode(rules.entries[i][2])])

\* the selectors the inputs can compose, and the rules with an empty block
\* they would give, bare or inside at-rules
ComposedSelectors ==
    LET first == {Test, <<".", "foo">>, <<".", "bar">>, <<"@", "page">>}
        children == SelectorChildren \cup OtherChildren \cup {<<"&">> \o k : k \in PseudoKeys}
                        \cup {<<".", "baz">>, <<".", "qux">>}
        second == first \cup {Composed(p, c) : p \in first, c \in children}
    IN  second \cup {Composed(p, c) : p \in second, c \in {<<"input">>, <<"&", ":", ":", "before">>}}
EmptyRules ==
    LET bare == {Concat(s) \o " {  }" : s \in ComposedSelectors}
        wrapped == {Concat(a) \o " { " \o r \o " }" : a \in AtRuleChildren, r \in bare}
    IN  bare \cup wrapped
                \cup {Concat(a) \o " { " \o r \o " }" : a \in AtRuleChildren, r \in wrapped}

\* C18: a node without declarations (no keys, only undefined values, only
\* nested rules) gets no base rule: the output has one string per node with
\* declarations and per inline keyframe set, css({ selector: {} }) is '', and
\* no rule string has an empty declaration block.
NoRuleWithoutDeclarations ==
    ret.op = "css" =>
        /\ Len(output[1].rules) = RulesOfRules(input)
        /\ \A j \in 1..Len(output[1].rules) : output[1].rules[j] \notin EmptyRules
        /\ (TestRuleCompiled /\ \A i \in 1..Len(TopNode.entries) :
                                    TopNode.entries[i][2].t = "undef") =>
                ret.value = ""

\* css({ '.test': { width: undefined, $: { input: { $: { '@supports (display: grid)': { width: 4 } } } } } })
OnlyNestedRulesCompiled ==
    /\ TestRuleCompiled
    /\ input = TestRule(<< <<Width, Undef>> >>, <<>>,
                        << <<(<<"$">>),
                             RulesObj(<< <<Sel(<<"input">>),
                                           Node(<< <<(<<"$">>),
                                                     RulesObj(<< <<Sel(Supports), WidthNode(4)>> >>)>> >>)>> >>)>> >>)
    /\ output[1].rules = <<"@supports (display: grid) { .test input { width: 4px; } }">>

\* the animation shorthand of a definition under a name (the inputs set at
\* most the duration)
Shorthand(a, name) ==
    name \o " "
        \o (IF a.props["animationDuration"].t = "undef" THEN "0ms"
            ELSE ToString(a.props["animationDuration"].n) \o "ms")
        \o " ease 0ms 1 normal none running"
NameOf(a) == IF a.props["animationName"].t = "undef" THEN "" ELSE a.props["animationName"].s

\* the names a hoisted block of the inputs may get
CandidateNames(stems) == {stem \o "-" \o ToString(n) : stem \in stems, n \in {0, 1, 2}}
OwnNames == CandidateNames({"test-animation", "named-animation", "a-0"})
ChildNames ==
    CandidateNames({"test-animation", "test_hover-animation", "test_before-animation",
                    "input_test-animation", "test_input-animation", "test_test-animation",
                    "test_page-animation"})

\* the positions of a node's animation elements that carry an inline
\* keyframe set
InlinePositions(node) ==
    SelectSeq([i \in 1..Len(AnimationsOf(node)) |-> i],
              LAMBDA i : Unregistered(AnimationsOf(node)[i]))

\* the rule strings of a node under a selector when its inline keyframe
\* sets are named by names: the base rule with those names in the animation
\* declaration, then one block per set under the same name
NodeWithBlocks(selector, node, names) ==
    LET all == AnimationsOf(node)
        at == InlinePositions(node)
        nameAt(i) == names[CHOOSE j \in 1..Len(at) : at[j] = i]
        value == Join([i \in 1..Len(all) |->
                        IF all[i].t = "str" THEN all[i].s
                        ELSE IF Unregistered(all[i]) THEN Shorthand(all[i], nameAt(i))
                        ELSE Shorthand(all[i], NameOf(all[i]))],
                      ", ")
        declared == [i \in 1..Len(DeclaredOf(node)) |->
                        IF DeclaredOf(node)[i][1] = <<"animation">>
                        THEN <<(<<"animation">>), Str(value)>>
                        ELSE DeclaredOf(node)[i]]
    IN  [base |-> <<selector \o " { " \o cssProperties(declared) \o " }">>,
         blocks |-> [j \in 1..Len(at) |->
                        keyframesCss(names[j], contents[all[at[j]].keyframes[1]])]]

\* C19: every animation definition with an inline (unmarked) keyframe set
\* gives exactly one @keyframes block, named exactly as the animation is named
\* in the node's declaration, emitted after the node's base rule and its
\* nested output; plain strings and registered sets hoist nothing.
HoistedBlockNamedAsDeclared ==
    TestRuleCompiled =>
        /\ AnimationsOf(TopNode) # <<>> =>
            \E names \in [1..Len(InlinePositions(TopNode)) -> OwnNames] :
                LET expected == NodeWithBlocks(".test", TopNode, names)
                IN  /\ SubSeq(output[1].rules, 1, 1) = expected.base
                    /\ HoistedPart = expected.blocks
        /\ \A i \in 1..Len(NestedOf(TopNode)) :
            LET e == NestedOf(TopNode)[i]
                child == IF e[1] = <<"$">> THEN e[2].entries[1][1].sels[1] ELSE <<"&">> \o e[1]
                styles == IF e[1] = <<"$">> THEN e[2].entries[1][2] ELSE e[2]
                wrapped == child[1] = "@" /\ child[2] \in WrappingAtRules
                selector == IF wrapped THEN ".test" ELSE Concat(Composed(Test, child))
                rule(r) == IF wrapped THEN Concat(child) \o " { " \o r \o " }" ELSE r
            IN  AnimationsOf(styles) # <<>> =>
                    \E names \in [1..Len(InlinePositions(styles)) -> ChildNames] :
                        LET expected == NodeWithBlocks(selector, styles, names)
                            strings == expected.base \o expected.blocks
                        IN  NestedPart = [j \in 1..Len(strings) |-> rule(strings[j])]

\* css({ '.test': { width: 1, animation: [{ keyframes }, registered, { animationName:
\* 'named-animation', keyframes, animationDuration: 100 }] } }) once the set
\* of the second element is registered
InlineKeyframesHoisted ==
    /\ TestRuleCompiled
    /\ nKeyframeObjs = 1
    /\ input = TestRule(<< <<Width, Num(1)>> >>,
                        << <<(<<"animation">>), ArrV(<<Anonymous(2), Registered, Named(3)>>)>> >>,
                        <<>>)
    /\ output[1].rules =
        <<".test { width: 1px; animation: test-animation-0 0ms ease 0ms 1 normal none running, a-0 0ms ease 0ms 1 normal none running, named-animation-2 100ms ease 0ms 1 normal none running; }",
          "@keyframes test-animation-0 {\n  to { width: 2px; }\n}",
          "@keyframes named-animation-2 {\n  to { width: 3px; }\n}">>

\* the output strings that are a @keyframes block of a name, bare or inside
\* at-rules
BlocksNamed(name) ==
    LET bare == {keyframesCss(name, contents[k]) : k \in KeyframeObjs}
    IN  bare \cup {Concat(a) \o " { " \o b \o " }" : a \in AtRuleChildren, b \in bare}
HoistedUnder(name) ==
    Cardinality({j \in 1..Len(output[1].rules) : output[1].rules[j] \in BlocksNamed(name)})

\* the nodes of a '.test' rule that are compiled under the selector '.test':
\* its own node and the nodes nested in wrapping at-rules
NodesUnderTest ==
    <<TopNode>>
        \o Flatten([i \in 1..Len(NestedOf(TopNode)) |->
                LET e == NestedOf(TopNode)[i]
                IN  IF e[1] = <<"$">> /\ e[2].entries[1][1].sels[1][1] = "@"
                        /\ e[2].entries[1][1].sels[1][2] \in WrappingAtRules
                    THEN <<e[2].entries[1][2]>>
                    ELSE <<>>])
\* the inline uses of nameless keyframe sets from the selector '.test'
AnonymousUses ==
    SumSeq([i \in 1..Len(NodesUnderTest) |->
                Len(SelectSeq(UnregisteredOf(NodesUnderTest[i]), LAMBDA a : NameOf(a) = ""))])

\* C20: within one compile output the inline keyframe sets used from the
\* selector '.test' are named 'test-animation-0', 'test-animation-1', ... in
\* turn, and no two hoisted @keyframes blocks share a name.
InlineNamesDistinct ==
    ret.op = "css" =>
        /\ \A name \in OwnNames \cup ChildNames : HoistedUnder(name) <= 1
        /\ TestRuleCompiled =>
            \A n \in 0..(AnonymousUses - 1) :
                HoistedUnder("test-animation-" \o ToString(n)) = 1

\* ---- registered keyframe sets in the stylesheet text ----------------------------
\* the slots of registeredKeyframes that hold a keyframe object
SlotsHolding(keyframes) ==
    {r \in 1..Len(registeredKeyframes) : registeredKeyframes[r].payload = keyframes}
\* the entries of the emitted array with a given text
EntriesWithText(text) == {j \in 1..Len(emitted) : emitted[j].text = text}

\* C21: a style whose animation is a definition returned by animation(name,
\* keyframes), the set being held by the ledger, compiles to the rule with
\* the shorthand under the registered name and to nothing else; the set's
\* @keyframes block is in the text of getCss exactly once, as an entry of the
\* keyframes group, however many styles use the definition.
RegisteredAnimationByName ==
    ret.op = "getCss" =>
        \A i \in 1..Len(registeredStyles) :
            \A u \in 1..Len(AnimationsOf(contents[registeredStyles[i].payload])) :
                LET d == AnimationsOf(contents[registeredStyles[i].payload])[u]
                    held == SlotsHolding(d.keyframes[1])
                IN  held # {} =>
                        LET name == registeredKeyframes[CHOOSE r \in held : TRUE].name
                            block == keyframesCss(name, contents[d.keyframes[1]])
                        IN  /\ Cardinality(held) = 1
                            /\ \E j \in 1..Len(emitted) :
                                    /\ emitted[j].group = "style"
                                    /\ emitted[j].slot = i - 1
                                    /\ emitted[j].text =
                                            "." \o registeredStyles[i].name \o " { animation: "
                                                \o name \o " 0ms ease 0ms 1 normal none running; }"
                            /\ Cardinality(EntriesWithText(block)) = 1
                            /\ \A j \in EntriesWithText(block) : emitted[j].group = "keyframes"

\* two styles use the definition of the registered set 'a-0'
TwoStylesUseRegisteredSet ==
    /\ ret.op = "getCss"
    /\ TextsOf(emitted) =
            <<".s-0 { animation: a-0 0ms ease 0ms 1 normal none running; }",
              ".s-1 { animation: a-0 0ms ease 0ms 1 normal none running; }",
              "@keyframes a-0 {\n  to { width: 1px; }\n}">>

\* ---- the order of a node's output -------------------------------------------------
\* what each of the written entries stands for in the output
DeclarationOf(entry) ==
    IF entry[1] = Width THEN "width: 1px;"
    ELSE "animation: test-animation-0 0ms ease 0ms 1 normal none running;"
NestedRulesOf(entry) ==
    IF entry[1] = <<"$">>
    THEN <<".test input { width: 3px; }", ".test button { width: 3px; }">>
    ELSE <<".test:hover { width: 2px; }">>

\* C22: in whatever order the keys of '.test' are written, the output is
\* the base rule with all the declarations, then the rules of the nested
\* entries in the order they are written (a selector list giving one rule per
\* selector, in its order), then the hoisted @keyframes block.
BaseThenNestedThenBlocks ==
    ret.op = "css" =>
        \A p \in Permutations(1..4) :
            LET written == [i \in 1..4 |-> WrittenEntries[p[i]]]
                declarations == SelectSeq(written, LAMBDA e : ~IsNestedKey(e[1]))
                nested == SelectSeq(written, LAMBDA e : IsNestedKey(e[1]))
            IN  input = RulesArr(<< <<Sel(Test), Node(written)>> >>) =>
                    output[1].rules =
                        <<".test { " \o DeclarationOf(declarations[1]) \o " "
                            \o DeclarationOf(declarations[2]) \o " }">>
                            \o NestedRulesOf(nested[1]) \o NestedRulesOf(nested[2])
                            \o <<"@keyframes test-animation-0 {\n  to { width: 2px; }\n}">>

\* css([['.test', { $: [[['input', 'button'], { width: 3 }]], animation: { keyframes },
\* ':hover': { width: 2 }, width: 1 }]])
NestedWrittenFirstCompiled ==
    /\ ret.op = "css"
    /\ input = RulesArr(<< <<Sel(Test), Node(<<WrittenEntries[4], WrittenEntries[2],
                                                WrittenEntries[3], WrittenEntries[1]>>)>> >>)
    /\ output[1].rules =
        <<".test { animation: test-animation-0 0ms ease 0ms 1 normal none running; width: 1px; }",
          ".test input { width: 3px; }",
          ".test button { width: 3px; }",
          ".test:hover { width: 2px; }",
          "@keyframes test-animation-0 {\n  to { width: 2px; }\n}">>

\* ---- selectors at the top level ----------------------------------------------------
\* the call that just returned is css({ [selector]: { width: 2 } })
TopLevelCompiled(selector) ==
    /\ ret.op = "css"
    /\ input = RulesObj(<< <<Sel(selector), WidthNode(2)>> >>)
HasAmpersand(selector) == \E i \in 1..Len(selector) : selector[i] = "&"

\* C23: a selector at the top level, whether plain, with '&' or starting
\* with '@', is the selector of the emitted rule as it is written.
TopLevelSelectorVerbatim ==
    \A c \in {Test} \cup SelectorChildren \cup AtRuleChildren \cup OtherChildren :
        TopLevelCompiled(c) => output[1].rules = <<Concat(c) \o " { width: 2px; }">>

\* C23, amended: a top-level selector without '&' (plain or starting with
\* '@') is the selector of the emitted rule as it is written; of a top-level
\* selector with '&' every '&' is replaced by the empty parent, that is,
\* left out.
TopLevelSelectorWithoutAmpersands ==
    \A c \in {Test} \cup SelectorChildren \cup AtRuleChildren \cup OtherChildren :
        TopLevelCompiled(c) =>
            /\ ~HasAmpersand(c) => output[1].rules = <<Concat(c) \o " { width: 2px; }">>
            /\ HasAmpersand(c) =>
                    output[1].rules =
                        <<Concat(SelectSeq(c, LAMBDA t : t # "&")) \o " { width: 2px; }">>
            /\ c = <<"&", ":", "hover">> => ret.value = ":hover { width: 2px; }"
            /\ c = <<"&", " ", "&">> => ret.value = "  { width: 2px; }"

\* css({ 'input&': { width: 2 } })
TopLevelAmpersandCompiled ==
    /\ TopLevelCompiled(<<"input", "&">>)
    /\ output[1].rules = <<"input { width: 2px; }">>

\* ---- units and separators of values ------------------------------------------------
\* the call that just returned is css({ '.test': { [property]: value } })
DeclarationCompiled(property, value) ==
    /\ ret.op = "css"
    /\ input = TestRule(<< <<property, value>> >>, <<>>, <<>>)
\* the properties and the functions that have an entry in the tables of defaults
WithPropertyDefault ==
    {"animationDuration", "animationTimingFunction", "animationDelay",
     "animationIterationCount", "animationDirection", "animationFillMode",
     "animationPlayState", "columnCount", "flex", "flexGrow", "flexShrink",
     "fontWeight", "gridArea", "gridColumn", "gridRow", "lineHeight", "opacity",
     "transitionDuration", "transitionDelay", "zIndex"}
WithFunctionDefault ==
    {"matrix", "matrix3d", "repeat", "rotate", "rotateX", "rotateY", "rotateZ",
     "rotate3d", "scale", "scaleX", "scaleY", "scaleZ", "scale3d", "skew", "skewX",
     "skewY"}
\* a function map of one function with one numeric parameter
OneNumberFunction(value) ==
    value.t = "obj" /\ Len(value.entries) = 1 /\ value.entries[1][2].t = "num"
\* the declaration of a property with a value text, as the only one of '.test'
Declared(property, text) == ".test { " \o kebabCase(property) \o ": " \o text \o "; }"

\* C24: a number for a property without an entry in the property defaults,
\* and a numeric parameter of a function without an entry in the function
\* defaults (under such a property), is emitted as the bare number.
NumbersWithoutDefaultStayBare ==
    \A v \in ValueInputs :
        DeclarationCompiled(v[1], v[2]) =>
            /\ (v[2].t = "num" /\ Concat(v[1]) \notin WithPropertyDefault) =>
                    ret.value = Declared(v[1], ToString(v[2].n))
            /\ (OneNumberFunction(v[2]) /\ Concat(v[1]) \notin WithPropertyDefault
                    /\ Concat(v[2].entries[1][1]) \notin WithFunctionDefault) =>
                    ret.value = Declared(v[1], functionKebabCase(v[2].entries[1][1]) \o "("
                                                \o ToString(v[2].entries[1][2].n) \o ")")

\* C24, amended: a number for a property without an entry in the property
\* defaults gets 'px'; a numeric parameter of a function without an entry in
\* the function defaults is formatted like a value of the property itself:
\* with 'px' when the property has no entry either, by the property's entry
\* otherwise.  Strings pass unchanged.
NumbersWithoutDefaultGetPx ==
    \A v \in ValueInputs :
        DeclarationCompiled(v[1], v[2]) =>
            /\ (v[2].t = "num" /\ Concat(v[1]) \notin WithPropertyDefault) =>
                    ret.value = Declared(v[1], ToString(v[2].n) \o "px")
            /\ (OneNumberFunction(v[2]) /\ Concat(v[2].entries[1][1]) \notin WithFunctionDefault) =>
                    ret.value = Declared(v[1], functionKebabCase(v[2].entries[1][1]) \o "("
                                                \o ToString(v[2].entries[1][2].n)
                                                \o (IF Concat(v[1]) \in WithPropertyDefault
                                                    THEN "" ELSE "px")
                                                \o ")")
            /\ v = <<(<<"width">>), Num(5)>> => ret.value = ".test { width: 5px; }"
            /\ v = <<(<<"width">>), Str("5%")>> => ret.value = ".test { width: 5%; }"
            /\ v = <<(<<"margin", "Left">>), Num(3)>> => ret.value = ".test { margin-left: 3px; }"
            /\ v[2] = Obj(<< <<(<<"translate", "X">>), Num(5)>> >>) =>
                    ret.value = ".test { transform: translateX(5px); }"
            /\ v[1] = <<"line", "Height">> => ret.value = ".test { line-height: calc(2); }"
            /\ v[1] = <<"grid", "Template", "Rows">> =>
                    ret.value = ".test { grid-template-rows: repeat(1, 2px minmax(3px, 4px)); }"

\* css({ '.test': { transform: { translateX: 5 } } })
UnlistedFunctionCompiled ==
    /\ DeclarationCompiled(<<"transform">>, Obj(<< <<(<<"translate", "X">>), Num(5)>> >>))
    /\ output[1].rules = <<".test { transform: translateX(5px); }">>

\* the separators of the properties of the inputs, and the two levels of an
\* array value joined with given separators
SeparatorsOf(property) ==
    IF property = "gridTemplate" THEN <<" ", " / ">>
    ELSE IF property = "margin" THEN <<" ">>
    ELSE <<", ">>
TwoLevels(property, values, outer, inner) ==
    Join([i \in 1..Len(values) |->
            IF values[i].t = "arr"
            THEN Join([j \in 1..Len(values[i].items) |->
                            Joined(propertyDefaults(property, values[i].items[j]))], inner)
            ELSE Joined(propertyDefaults(property, values[i]))],
         outer)
HasNestedArray(values) == \E i \in 1..Len(values) : values[i].t = "arr"

BlockNode == input.entries[1][2]

\* the entries of the node that are declarations: the value is a number, a
\* string or undefined
PlainEntries == SelectSeq(BlockNode.entries, LAMBDA e : e[2].t \in {"num", "str", "undef"})

\* the declarations of the node that have a value, as they are to be
\* written: 'property: value;' joined with a space
WrittenDeclarations ==
    LET written == SelectSeq(PlainEntries, LAMBDA e : e[2].t # "undef")
    IN  Join([i \in 1..Len(written) |->
                kebabCase(written[i][1]) \o ": "
                    \o (IF written[i][2].t = "num" THEN ToString(written[i][2].n) \o "px"
                        ELSE written[i][2].s) \o ";"],
             " ")

\* the text of each block that holds exactly the declarations that have a value
BlockOfWritten(op) ==
    CASE op = "css" ->
            IF WrittenDeclarations = "" THEN "" ELSE ".test { " \o WrittenDeclarations \o " }"
      [] op = "keyframesCss" ->
            "@keyframes test {\n  "
                \o (IF WrittenDeclarations = "" THEN "" ELSE "to { " \o WrittenDeclarations \o " }")
                \o "\n}"
      [] op = "fontFaceCss" -> "@font-face { " \o WrittenDeclarations \o " }"
      [] op = "elementStyle" -> WrittenDeclarations

BlockOps == {"css", "keyframesCss", "fontFaceCss", "elementStyle"}

\* C26: every declaration block that is serialized (the body of a rule, a
\* keyframe offset, a font-face block, an element style) omits each entry
\* whose value is undefined: for a node of declarations only, the block holds
\* exactly the declarations that have a value, and a lone undefined
\* declaration leaves no declaration at all.
UndefinedEntriesOmitted ==
    (ret.op \in BlockOps /\ PlainEntries = BlockNode.entries) =>
        /\ ret.value = BlockOfWritten(ret.op)
        /\ (BlockNode.entries = << <<Width, Undef>> >> /\ ret.op = "keyframesCss") =>
                ret.value = "@keyframes test {\n  \n}"
        /\ (BlockNode.entries = << <<Width, Undef>> >> /\ ret.op = "fontFaceCss") =>
                ret.value = "@font-face {  }"

\* the entries of the node that are nested constructs: a pseudo key, a '$'
\* rule set, an animation that carries a keyframe set
NestedConstructs ==
    SelectSeq(BlockNode.entries,
              LAMBDA e : e[2].t \in {"node", "rules"}
                            \/ (e[2].t = "anim" /\ e[2].keyframes # Undefined))

\* C27: a nested construct (a pseudo key, a '$' rule set, an animation with
\* inline keyframes) in the node of a keyframe offset or in the input of
\* elementStyle is dropped from the declarations: only the plain declarations
\* are serialized, a warning is issued, and the operation does not throw.
NestedConstructsDropped ==
    (/\ ret.op \in {"keyframesCss", "elementStyle"}
     /\ NestedConstructs # <<>>
     /\ \A i \in 1..Len(PlainEntries) : PlainEntries[i][2].t # "undef") =>
        /\ ~ret.threw
        /\ ret.value = BlockOfWritten(ret.op)
        /\ output[1].warnings # <<>>

ReferencedKeyframesDefined ==
    ret.op = "getCss" =>
        \A i \in 1..Len(registeredStyles) :
            \A u \in 1..Len(AnimationsOf(contents[registeredStyles[i].payload])) :
                LET d == AnimationsOf(contents[registeredStyles[i].payload])[u]
                    name == Show(d.props["animationName"])
                IN  EntriesWithText("." \o registeredStyles[i].name \o " { animation: "
                                        \o name \o " 0ms ease 0ms 1 normal none running; }") # {}
                        => \E r \in 1..Len(registeredKeyframes) :
                                /\ registeredKeyframes[r].name = name
                                /\ EntriesWithText(
                                        keyframesCss(name, contents[registeredKeyframes[r].payload])) # {}

\* ---- the scheduled update --------------------------------------------------
\* classes accepts every style that the ledger holds
LedgerStylesAccepted ==
    \A i \in 1..Len(registeredStyles) :
        /\ StyleRendered[registeredStyles[i].payload] = "true"
        /\ ~classes(Handle(registeredStyles[i].payload)).threw

RegisteringCalls == {"style", "animation", "variable", "cssRules", "fontFace"}

\* C29: with HMR support enabled and the stylesheet element existing, every
\* registering call (style, named animation, variable, cssRules, fontFace)
\* leaves exactly one update pending, whatever was pending before; at most
\* one update is pending at any time; a pending update eventually runs, and
\* once none is pending every style in the ledger is rendered and accepted
\* by classes.
UpdateFollowsRegistration ==
    /\ [][(ret'.op \in RegisteringCalls /\ hmrEnabled /\ stylesheet) => updateTimeout' = 1]_vars
    /\ [](updateTimeout <= 1)
    /\ []((hmrEnabled /\ stylesheet /\ updateTimeout = 0) => LedgerStylesAccepted)
    /\ (hmrEnabled /\ updateTimeout > 0) ~> (updateTimeout = 0 /\ stylesheet /\ LedgerStylesAccepted)

\* a style is registered while the update of an earlier registration is
\* pending, and one update is pending afterwards
RegisteredWhileUpdatePending ==
    /\ hmrEnabled
    /\ stylesheet
    /\ updateTimeout = 1
    /\ ret.op = "style"
    /\ Len(registeredStyles) >= 2
    /\ \E i \in 1..Len(registeredStyles) : StyleRendered[registeredStyles[i].payload] = "false"

====
